---- MODULE Spec2Model ----
(***************************************************************************)
(* A model of the Homebox MCP server's API client (homebox_client.py):     *)
(* the token slot, the lazy authentication step, the 401-triggered         *)
(* re-authentication of _request, update_item's fetch-then-merge, the list  *)
(* operations with the tools that reshape their results, create_location,  *)
(* and the API base URL derived by config.py.                              *)
(*                                                                         *)
(* Coroutines of one client run on one event loop: a task is suspended     *)
(* only while it awaits an HTTP call (client.post / client.request), so    *)
(* each action below is the code between two such awaits.                  *)
(*                                                                         *)
(* The module also models the server process on its machine: config.py's   *)
(* loading of the endpoint-protection token from the environment, the      *)
(* token file or the random source at every start, and server.py's         *)
(* endpoint gate, BearerAuthMiddleware.dispatch.                           *)
(***************************************************************************)
EXTENDS Integers, Sequences, FiniteSets, TLC

VARIABLES
    config,     \* the settings object handed to HomeboxClient.__init__
    base_url,   \* HomeboxClient.base_url, empty before construction
    _token,     \* HomeboxClient._token, the single token slot
    task,       \* per task: position in the running operation and its history
    plan,       \* per task: the client operation the task invokes
    left,       \* how many more operations the tasks may start
    valid,      \* remote service: the tokens it accepts, among those that the
                \* client still holds or has in flight
    faithful,   \* no response so far deviated from a healthy remote service
    chaos,      \* whether the remote side may fail arbitrarily in this run
    remote,     \* remote service: the stored item record, or the stored
                \* collection a list request is answered from
    received,   \* remote service: the body of the last PUT it accepted
    wire,       \* the requests the client has sent, without their credentials
    environ,    \* os.environ: the variables set for the server process
    TOKEN_FILE, \* the file at /data/mcp_auth_token.txt: whether it exists, its text
    fs,         \* which operations on the token file the file system refuses
    boot,       \* the process starts so far and what they did to the token
    request,    \* the last request BearerAuthMiddleware.dispatch was given
    answer      \* what dispatch answered it with

\* the state of the machine the server runs on and of its endpoint gate
host == <<environ, TOKEN_FILE, fs, boot, request, answer>>

vars == <<config, base_url, _token, task, plan, left, valid, faithful, chaos,
          remote, received, wire, host>>

----------------------------------------------------------------------------
(* Bounds *)

NumTasks == 2       \* concurrent tool invocations on the one client
MaxOps == 2         \* operations the tasks start in one run
MaxSupplied == 2    \* optional arguments supplied to one update_item call
MaxLen == 4         \* characters of a configured HOMEBOX_URL
MaxStarts == 3      \* starts of the server process on one machine

Tasks == 1..NumTasks

----------------------------------------------------------------------------
(* Values *)

None == "None"                 \* Python's None
NoAuth == "no-authorization"   \* a request without an Authorization header
CfgTok == "cfg"                \* a non-empty configured HOMEBOX_TOKEN
LoginEndpoint == "/users/login"
ResourceEndpoints == {"/locations", "/items/i1"}

\* The tokens of the login endpoint.  The slot and each request in flight hold
\* at most one token each, so NumTasks + 1 names are enough for every login to
\* return a token that the client does not hold.
TokenName(n) == "t" \o ToString(n)
LoginTokens == {TokenName(n) : n \in 1..(NumTasks + 1)}

\* the statuses of a response: 500 stands for every status that is neither
\* 2xx nor 401
Statuses == {200, 204, 401, 500}
Bodies == {"b1"}

\* what a response to the login call can be: a failure (non-2xx status or a
\* network error), a 2xx body without a token field, or a 2xx body with one
LoginFail == "login-failed"
LoginNoToken == "login-without-token"

\* JSON values, tagged with their type
Null == [t |-> "null"]
Str(s) == [t |-> "str", v |-> s]
Num(n) == [t |-> "num", v |-> n]
Bool(b) == [t |-> "bool", v |-> b]
List(l) == [t |-> "list", v |-> l]
Obj(o) == [t |-> "obj", v |-> o]

NoParams == <<>>
NoMsg == [endpoint |-> "", auth |-> NoAuth, method |-> "", json |-> Null,
          params |-> NoParams]

\* The operations a task can invoke.  Optional arguments of update_item form
\* a function from the names of the arguments the caller supplied to their
\* values: an argument left at its default None is not in the domain.
NoCall == [op |-> "none", args |-> <<>>]
RequestCall == [op |-> "request", args |-> <<>>]
ListCall(op, args) == [op |-> op, args |-> args]
CreateLocationCall(args) == [op |-> "create_location", args |-> args]
UpdateItemCall(args) == [op |-> "update_item", args |-> args]
MoveItemCall(loc) == [op |-> "move_item", args |-> [location_id |-> Str(loc)]]

\* A task between operations.  The fields from nreq to hit describe the
\* running invocation of _request: the resource calls and the login calls it
\* has sent, how often it re-ran the authentication step after a 401, the
\* status of its first and second resource call and the body of the second,
\* the Authorization value each call carried, what its last login call
\* returned, and whether the service expired the token of its resource call
\* while that call was in flight.
NewTask ==
    [pc |-> "idle", op |-> "none", args |-> <<>>, stage |-> "",
     req |-> NoMsg, out |-> NoMsg, nreq |-> 0, nlogin |-> 0, nreauth |-> 0,
     s1 |-> 0, s2 |-> 0, b2 |-> Null, a1 |-> NoAuth, a2 |-> NoAuth,
     lr |-> "", hit |-> FALSE, result |-> "", value |-> Null,
     current |-> Null, data |-> Null]

----------------------------------------------------------------------------
(* Config.api_base_url *)

\* A URL is a sequence of characters; "h" stands for every character other
\* than the slash and the colon, and the path segments api and v1 are one
\* element each.
UrlChars == {"h", ":", "/"}
ApiPath == <<"/", "api", "/", "v1">>
DefaultUrl == <<"h", ":", "/", "/", "h">>

\* str.rstrip('/')
RECURSIVE rstrip(_)
rstrip(str) ==
    IF str # <<>> /\ str[Len(str)] = "/"
    THEN rstrip(SubSeq(str, 1, Len(str) - 1)) ELSE str

\* (variant) str.removesuffix('/'): one trailing slash is removed
api_base_url_removesuffix(homebox_url) ==
    (IF homebox_url # <<>> /\ homebox_url[Len(homebox_url)] = "/"
     THEN SubSeq(homebox_url, 1, Len(homebox_url) - 1) ELSE homebox_url)
    \o ApiPath

\* Config.api_base_url
api_base_url(homebox_url) == rstrip(homebox_url) \o ApiPath

----------------------------------------------------------------------------
(* HomeboxClient: authentication *)

\* _get_headers: the Authorization header is attached when the slot holds a
\* truthy token (neither None nor the empty string)
_get_headers(tok) ==
    IF tok # None /\ tok # "" THEN "Bearer " \o tok ELSE NoAuth

\* (variant) the configured token is adopted only if it is not empty
ensure_authenticated_token_present(tok) ==
    IF tok # None THEN [kind |-> "ok", token |-> tok]
    ELSE IF ~config.has_auth_settings THEN [kind |-> "raise", token |-> tok]
    ELSE IF config.use_token_auth /\ config.homebox_token # ""
         THEN [kind |-> "ok", token |-> config.homebox_token]
         ELSE [kind |-> "login", token |-> tok]

\* _ensure_authenticated up to its first await: what it does with the slot
\* holding tok.  Reading a setting the settings object does not define raises
\* AttributeError.
_ensure_authenticated(tok) ==
    IF tok # None THEN [kind |-> "ok", token |-> tok]
    ELSE IF ~config.has_auth_settings THEN [kind |-> "raise", token |-> tok]
    ELSE IF config.use_token_auth
         THEN [kind |-> "ok", token |-> config.homebox_token]
         ELSE [kind |-> "login", token |-> tok]

\* _login up to its await: the POST to the login endpoint, without headers
LoginMsg ==
    [endpoint |-> LoginEndpoint, auth |-> NoAuth, method |-> "POST",
     json |-> Obj([username |-> Str("user"), password |-> Str("pass")]),
     params |-> NoParams]

\* (variant) data.get("token", ""): an absent token field gives the empty string
LoginTokenOrEmpty(outcome) == IF outcome = LoginNoToken THEN "" ELSE outcome

\* _login after its await: the token field of a 2xx body, None when absent
LoginToken(outcome) == IF outcome = LoginNoToken THEN None ELSE outcome

\* The end of the running operation: the caller is left with the outcome, the
\* responses it came from and the number of resource calls made; the headers
\* and the other locals of _request are gone.
Finished(tk) ==
    [tk EXCEPT !.pc = "done", !.req = NoMsg, !.out = NoMsg, !.nlogin = 0,
               !.nreauth = 0, !.a1 = NoAuth, !.a2 = NoAuth, !.lr = "",
               !.hit = FALSE]

\* an exception leaving the running operation
Raise(tk, err) == [Finished(tk) EXCEPT !.result = "error", !.value = Str(err)]

\* the operation returning a value to its caller
ReturnValue(tk, v) == [Finished(tk) EXCEPT !.result = "ok", !.value = v]

\* (variant) the retry re-sends the headers of the first attempt
SendRequestSameHeaders(tk, tok) ==
    LET h == IF tk.nreq = 0 THEN _get_headers(tok) ELSE tk.a1 IN
    IF tk.nreq = 0
    THEN [tk EXCEPT !.pc = "request", !.nreq = 1, !.a1 = h, !.hit = FALSE,
                    !.out = [tk.req EXCEPT !.auth = h]]
    ELSE [tk EXCEPT !.pc = "request", !.nreq = @ + 1, !.a2 = h, !.hit = FALSE,
                    !.out = [tk.req EXCEPT !.auth = h]]

\* client.request(method, url, headers=headers, **kwargs) with the headers
\* built from the slot at this moment
SendRequest(tk, tok) ==
    LET h == _get_headers(tok) IN
    IF tk.nreq = 0
    THEN [tk EXCEPT !.pc = "request", !.nreq = 1, !.a1 = h, !.hit = FALSE,
                    !.out = [tk.req EXCEPT !.auth = h]]
    ELSE [tk EXCEPT !.pc = "request", !.nreq = @ + 1, !.a2 = h, !.hit = FALSE,
                    !.out = [tk.req EXCEPT !.auth = h]]

\* _ensure_authenticated followed by the request, up to the next await
AuthThenSend(tk, tok) ==
    LET ea == _ensure_authenticated(tok) IN
    CASE ea.kind = "raise" ->
            [token |-> ea.token, task |-> Raise(tk, "AttributeError")]
      [] ea.kind = "login" ->
            [token |-> ea.token,
             task |-> [tk EXCEPT !.pc = "login", !.out = LoginMsg,
                                 !.nlogin = @ + 1]]
      [] OTHER ->
            [token |-> ea.token, task |-> SendRequest(tk, ea.token)]

\* entry of _request(method, endpoint, **kwargs), the keyword arguments
\* being json and params
BeginRequestWith(tk, tok, method, endpoint, json, params) ==
    AuthThenSend(
        [tk EXCEPT !.req = [endpoint |-> endpoint, auth |-> NoAuth,
                            method |-> method, json |-> json,
                            params |-> params],
                   !.nreq = 0, !.nlogin = 0, !.nreauth = 0, !.s1 = 0,
                   !.s2 = 0, !.b2 = Null, !.a1 = NoAuth, !.a2 = NoAuth,
                   !.lr = "", !.hit = FALSE],
        tok)

BeginRequest(tk, tok, method, endpoint, json) ==
    BeginRequestWith(tk, tok, method, endpoint, json, NoParams)

----------------------------------------------------------------------------
(* HomeboxClient.update_item: the merge of the caller's arguments with the
   fetched record *)

ItemId == "i1"
ItemEndpoint == "/items/i1"

\* dict.get(key, default) on a JSON object
Get(o, k, d) == IF k \in DOMAIN o THEN o[k] ELSE d

\* Python truthiness of a JSON value
Truthy(v) ==
    CASE v.t = "null" -> FALSE
      [] v.t = "str" -> v.v # ""
      [] v.t = "num" -> v.v # 0
      [] v.t = "bool" -> v.v
      [] v.t = "list" -> Len(v.v) > 0
      [] OTHER -> DOMAIN v.v # {}

\* "x is not None" for an optional argument x of update_item
IsNotNone(args, a) == a \in DOMAIN args

\* the extended optional arguments and the key each is sent under
ExtendedArgs ==
    {"insured", "archived", "asset_id", "serial_number", "model_number",
     "manufacturer", "purchase_price", "notes"}

ExtKey(a) ==
    CASE a = "asset_id" -> "assetId"
      [] a = "serial_number" -> "serialNumber"
      [] a = "model_number" -> "modelNumber"
      [] a = "purchase_price" -> "purchasePrice"
      [] OTHER -> a

ExtArg(k) == CHOOSE a \in ExtendedArgs : ExtKey(a) = k

\* current.get("location", {}).get("id", "") raises AttributeError when the
\* record's location is not an object; the expression is evaluated only when
\* the caller gave no location_id
UpdateItemRaises(args, cur) ==
    /\ ~IsNotNone(args, "location_id")
    /\ Get(cur, "location", Obj(<<>>)).t # "obj"

\* (variant) "name or current.get(...)": a falsy value counts as not supplied
CoreFieldsTruthy(args, cur) ==
    [k \in {"name", "description", "quantity", "locationId"} |->
        CASE k = "name" ->
                IF IsNotNone(args, "name") /\ Truthy(args["name"])
                THEN args["name"] ELSE Get(cur, "name", Str(""))
          [] k = "description" ->
                IF IsNotNone(args, "description") /\ Truthy(args["description"])
                THEN args["description"] ELSE Get(cur, "description", Str(""))
          [] k = "quantity" ->
                IF IsNotNone(args, "quantity") /\ Truthy(args["quantity"])
                THEN args["quantity"] ELSE Get(cur, "quantity", Num(1))
          [] OTHER ->
                IF IsNotNone(args, "location_id") /\ Truthy(args["location_id"])
                THEN args["location_id"]
                ELSE Get(Get(cur, "location", Obj(<<>>)).v, "id", Str(""))]

\* (variant) "current.get(key) or default": a falsy fetched value counts as
\* missing
CoreFieldsOrDefault(args, cur) ==
    LET or(v, d) == IF Truthy(v) THEN v ELSE d IN
    [k \in {"name", "description", "quantity", "locationId"} |->
        CASE k = "name" ->
                IF IsNotNone(args, "name") THEN args["name"]
                ELSE or(Get(cur, "name", Null), Str(""))
          [] k = "description" ->
                IF IsNotNone(args, "description") THEN args["description"]
                ELSE or(Get(cur, "description", Null), Str(""))
          [] k = "quantity" ->
                IF IsNotNone(args, "quantity") THEN args["quantity"]
                ELSE or(Get(cur, "quantity", Null), Num(1))
          [] OTHER ->
                IF IsNotNone(args, "location_id") THEN args["location_id"]
                ELSE Get(Get(cur, "location", Obj(<<>>)).v, "id", Str(""))]

\* the four fields update_item always sends: the caller's value when it is
\* not None, else the fetched record's, else a default
CoreFields(args, cur) ==
    [k \in {"name", "description", "quantity", "locationId"} |->
        CASE k = "name" ->
                IF IsNotNone(args, "name") THEN args["name"]
                ELSE Get(cur, "name", Str(""))
          [] k = "description" ->
                IF IsNotNone(args, "description") THEN args["description"]
                ELSE Get(cur, "description", Str(""))
          [] k = "quantity" ->
                IF IsNotNone(args, "quantity") THEN args["quantity"]
                ELSE Get(cur, "quantity", Num(1))
          [] OTHER ->
                IF IsNotNone(args, "location_id") THEN args["location_id"]
                ELSE Get(Get(cur, "location", Obj(<<>>)).v, "id", Str(""))]

\* (variant) "if labels:": an empty list counts as not supplied
LabelFieldsTruthy(args, cur) ==
    IF IsNotNone(args, "labels") /\ Truthy(args["labels"])
    THEN "labelIds" :> args["labels"]
    ELSE IF Truthy(Get(cur, "labels", Null))
         THEN "labelIds" :> List([i \in 1..Len(cur["labels"].v) |->
                                    cur["labels"].v[i].v["id"]])
         ELSE <<>>

\* "Handle labels": the labelIds entry of the body, if any
LabelFields(args, cur) ==
    IF IsNotNone(args, "labels") THEN "labelIds" :> args["labels"]
    ELSE IF Truthy(Get(cur, "labels", Null))
         THEN "labelIds" :> List([i \in 1..Len(cur["labels"].v) |->
                                    cur["labels"].v[i].v["id"]])
         ELSE <<>>

\* (variant) an extended argument left at None is filled from the record
OptionalFieldsFromCurrent(args, cur) ==
    [k \in {ExtKey(a) : a \in {x \in ExtendedArgs :
                IsNotNone(args, x) \/ ExtKey(x) \in DOMAIN cur}} |->
        IF IsNotNone(args, ExtArg(k)) THEN args[ExtArg(k)] ELSE cur[k]]

\* (variant) every extended argument is sent, null when it was left at None
OptionalFieldsNulls(args, cur) ==
    [k \in {ExtKey(a) : a \in ExtendedArgs} |->
        IF IsNotNone(args, ExtArg(k)) THEN args[ExtArg(k)] ELSE Null]

\* "Optional fields": one entry for each extended argument that is not None
OptionalFields(args, cur) ==
    [k \in {ExtKey(a) : a \in {x \in ExtendedArgs : IsNotNone(args, x)}} |->
        args[ExtArg(k)]]

\* the body update_item sends with its PUT
UpdateItemData(item_id, args, cur) ==
    ("id" :> Str(item_id)) @@ CoreFields(args, cur) @@ LabelFields(args, cur)
        @@ OptionalFields(args, cur)

----------------------------------------------------------------------------
(* HomeboxClient: list operations and create_location *)

GetItemsOps == {"get_items", "homebox_list_items", "homebox_search"}
GetLabelsOps == {"get_labels", "homebox_list_labels"}

\* "if x:" for an optional argument x
IsTruthy(args, a) == a \in DOMAIN args /\ Truthy(args[a])

\* get_items: the query parameters, one for each truthy filter
ParamKey(a) ==
    CASE a = "location_id" -> "locations"
      [] a = "label_id" -> "labels"
      [] OTHER -> "q"

GetItemsParams(args) ==
    LET given == {a \in {"location_id", "label_id", "search"} : IsTruthy(args, a)}
    IN  [k \in {ParamKey(a) : a \in given} |->
            args[CHOOSE a \in given : ParamKey(a) = k]]

\* get_items: what it returns for the response of _request
GetItemsResult(response) ==
    IF response.t = "obj" /\ "items" \in DOMAIN response.v
    THEN response.v["items"] ELSE response

\* (variant) optional fields left at None are sent as null
CreateLocationDataNulls(args) ==
    [k \in {"name", "description", "parentId"} |->
        CASE k = "name" -> args["name"]
          [] k = "description" -> Get(args, "description", Null)
          [] OTHER -> Get(args, "parent_id", Null)]

\* create_location: the body of its POST
CreateLocationData(args) ==
    ("name" :> args["name"])
    @@ (IF IsTruthy(args, "description")
        THEN "description" :> args["description"] ELSE <<>>)
    @@ (IF IsTruthy(args, "parent_id")
        THEN "parentId" :> args["parent_id"] ELSE <<>>)

\* what the client operation under a tool returns for the response of _request
ClientResult(op, response) ==
    IF op \in GetItemsOps THEN GetItemsResult(response) ELSE response

----------------------------------------------------------------------------
(* The tool layer's reshaping of the records it lists *)

ToolOps ==
    {"homebox_list_locations", "homebox_list_items", "homebox_search",
     "homebox_list_labels"}

\* the arguments a tool calls its client operation with
ClientArgs(call) ==
    IF call.op = "homebox_search" THEN "search" :> call.args["query"]
    ELSE call.args

\* homebox_list_locations: the summary of one location record
LocationSummary(loc) ==
    Obj([id |-> Get(loc, "id", Null),
         name |-> Get(loc, "name", Null),
         description |-> Get(loc, "description", Str("")),
         parent_id |-> IF Truthy(Get(loc, "parent", Null))
                       THEN Get(loc["parent"].v, "id", Null) ELSE Null,
         item_count |-> Get(loc, "itemCount", Num(0))])

\* homebox_search: the summary of one item record
SearchSummary(item) ==
    LET loc == Get(item, "location", Obj(<<>>)).v
    IN  Obj([id |-> Get(item, "id", Null),
             name |-> Get(item, "name", Null),
             description |-> Get(item, "description", Str("")),
             quantity |-> Get(item, "quantity", Num(1)),
             location |-> Obj([id |-> Get(loc, "id", Null),
                               name |-> Get(loc, "name", Null)])])

\* homebox_list_labels: the summary of one label record
LabelSummary(label) ==
    Obj([id |-> Get(label, "id", Null),
         name |-> Get(label, "name", Null),
         description |-> Get(label, "description", Str("")),
         color |-> Get(label, "color", Str("")),
         item_count |-> Get(label, "itemCount", Num(0))])

\* homebox_list_items: the summary of one item record
ItemSummary(item) ==
    LET loc == Get(item, "location", Obj(<<>>)).v
        given == Get(item, "labels", List(<<>>))
        labels == IF given.t = "list" THEN given.v ELSE <<>>
    IN  Obj([id |-> Get(item, "id", Null),
             name |-> Get(item, "name", Null),
             description |-> Get(item, "description", Str("")),
             quantity |-> Get(item, "quantity", Num(1)),
             location |-> Obj([id |-> Get(loc, "id", Null),
                               name |-> Get(loc, "name", Null)]),
             labels |-> List([i \in 1..Len(labels) |->
                                Obj([id |-> Get(labels[i].v, "id", Null),
                                     name |-> Get(labels[i].v, "name", Null)])]),
             insured |-> Get(item, "insured", Bool(FALSE)),
             archived |-> Get(item, "archived", Bool(FALSE))])

\* the summary a tool makes of one record
Summary(op, rec) ==
    CASE op = "homebox_list_locations" -> LocationSummary(rec)
      [] op = "homebox_list_items" -> ItemSummary(rec)
      [] op = "homebox_search" -> SearchSummary(rec)
      [] OTHER -> LabelSummary(rec)

\* The exception a tool raises while it builds the summary of one record,
\* "" if none.  x.get(...) on a value that is not a dict, such as None,
\* raises AttributeError; a for over None, a number or a boolean raises
\* TypeError, and over a string or a dict it yields strings, which have no
\* get.  The entries of a summary are evaluated in order: location before
\* labels.
SummaryError(op, rec) ==
    LET parent == Get(rec, "parent", Null)
        location == Get(rec, "location", Obj(<<>>))
        labels == Get(rec, "labels", List(<<>>))
    IN  CASE op = "homebox_list_locations" ->
                IF Truthy(parent) /\ parent.t # "obj"
                THEN "AttributeError" ELSE ""
          [] op \in {"homebox_list_items", "homebox_search"} ->
                IF location.t # "obj" THEN "AttributeError"
                ELSE IF op = "homebox_search" THEN ""
                ELSE IF labels.t = "list"
                THEN IF \E i \in 1..Len(labels.v) : labels.v[i].t # "obj"
                     THEN "AttributeError" ELSE ""
                ELSE IF labels.t \in {"str", "obj"}
                THEN IF Truthy(labels) THEN "AttributeError" ELSE ""
                ELSE "TypeError"
          [] OTHER -> ""

\* (variant) the tool builds its list from the last record to the first
ReshapeReversed(op, v) ==
    IF v.t = "list"
    THEN [kind |-> "ok",
          value |-> List([i \in 1..Len(v.v) |->
                            Summary(op, v.v[Len(v.v) + 1 - i].v)])]
    ELSE [kind |-> "raise", value |-> Str("TypeError")]

\* The list comprehension of a tool over what the client returned: one
\* summary per record, in order, or the exception of the first record whose
\* summary raises.  Iterating None raises TypeError; iterating a non-empty
\* dict yields its keys, which have no get (AttributeError).
Reshape(op, v) ==
    CASE v.t = "list" ->
            IF \E i \in 1..Len(v.v) : v.v[i].t # "obj"
            THEN [kind |-> "raise", value |-> Str("AttributeError")]
            ELSE IF \E i \in 1..Len(v.v) : SummaryError(op, v.v[i].v) # ""
            THEN LET i == CHOOSE j \in 1..Len(v.v) :
                            /\ SummaryError(op, v.v[j].v) # ""
                            /\ \A k \in 1..(j - 1) :
                                    SummaryError(op, v.v[k].v) = ""
                 IN  [kind |-> "raise", value |-> Str(SummaryError(op, v.v[i].v))]
            ELSE [kind |-> "ok",
                  value |-> List([i \in 1..Len(v.v) |-> Summary(op, v.v[i].v)])]
      [] v.t = "obj" ->
            IF DOMAIN v.v = {}
            THEN [kind |-> "ok", value |-> List(<<>>)]
            ELSE [kind |-> "raise", value |-> Str("AttributeError")]
      [] v.t = "str" ->
            IF v.v = ""
            THEN [kind |-> "ok", value |-> List(<<>>)]
            ELSE [kind |-> "raise", value |-> Str("AttributeError")]
      [] OTHER -> [kind |-> "raise", value |-> Str("TypeError")]

----------------------------------------------------------------------------
(* HomeboxClient._request and the operations built on it *)

\* _request returning v to the operation that called it.  update_item goes
\* on from its get_item to the merge and the PUT; every other operation
\* returns the value to its caller.
Succeed(tk, tok, v) ==
    IF tk.op \in {"update_item", "move_item"} /\ tk.stage = "get"
    THEN IF v.t # "obj" \/ UpdateItemRaises(tk.args, v.v)
         THEN [token |-> tok, task |-> Raise(tk, "AttributeError")]
         ELSE LET data == Obj(UpdateItemData(ItemId, tk.args, v.v)) IN
              BeginRequest([tk EXCEPT !.stage = "put", !.current = v,
                                      !.data = data],
                           tok, "PUT", ItemEndpoint, data)
    ELSE IF tk.op \in ToolOps
    THEN LET r == Reshape(tk.op, ClientResult(tk.op, v)) IN
         [token |-> tok,
          task |-> IF r.kind = "ok" THEN ReturnValue(tk, r.value)
                   ELSE Raise(tk, r.value.v)]
    ELSE [token |-> tok, task |-> ReturnValue(tk, ClientResult(tk.op, v))]

\* (variant) update_item catches the failure of its get_item and merges with
\* an empty record
FailCaughtByUpdate(tk, tok, err) ==
    IF tk.stage = "get"
    THEN LET data == Obj(UpdateItemData(ItemId, tk.args, <<>>)) IN
         BeginRequest([tk EXCEPT !.stage = "put", !.current = Obj(<<>>),
                                 !.data = data],
                      tok, "PUT", ItemEndpoint, data)
    ELSE [token |-> tok, task |-> Raise(tk, err)]

\* an exception raised inside _request propagates through every operation
Fail(tk, tok, err) == [token |-> tok, task |-> Raise(tk, err)]

\* (variant) every 401 is handled: "while" in place of "if"
Handles401Always(status, nreq) == status = 401

\* (variant) every failed first call is retried after re-authenticating
HandlesAnyFailure(status, nreq) == status \notin 200..299 /\ nreq = 1

\* "if response.status_code == 401" is reached once, after the first call
Handles401(status, nreq) == status = 401 /\ nreq = 1

\* (variant) raise_for_status looks at the first response after the retry too
HandleResponseFirstStatus(tk, tok, status, body) ==
    LET tk1 == IF tk.nreq = 1 THEN [tk EXCEPT !.s1 = status]
               ELSE [tk EXCEPT !.s2 = status, !.b2 = body]
        checked == IF tk.nreq = 1 THEN status ELSE tk.s1 IN
    IF Handles401(status, tk.nreq)
    THEN AuthThenSend([tk1 EXCEPT !.nreauth = @ + 1], None)
    ELSE IF checked \notin 200..299 THEN Fail(tk1, tok, "HTTPStatusError")
    ELSE IF status = 204 THEN Succeed(tk1, tok, Null)
    ELSE Succeed(tk1, tok, body)

\* (variant) the slot is not emptied before the authentication step re-runs
HandleResponseKeepsToken(tk, tok, status, body) ==
    LET tk1 == IF tk.nreq = 1 THEN [tk EXCEPT !.s1 = status]
               ELSE [tk EXCEPT !.s2 = status, !.b2 = body] IN
    IF Handles401(status, tk.nreq)
    THEN AuthThenSend([tk1 EXCEPT !.nreauth = @ + 1], tok)
    ELSE IF status \notin 200..299 THEN Fail(tk1, tok, "HTTPStatusError")
    ELSE IF status = 204 THEN Succeed(tk1, tok, Null)
    ELSE Succeed(tk1, tok, body)

\* _request from the response of a resource call to its next await or its end
HandleResponse(tk, tok, status, body) ==
    LET tk1 == IF tk.nreq = 1 THEN [tk EXCEPT !.s1 = status]
               ELSE [tk EXCEPT !.s2 = status, !.b2 = body] IN
    IF Handles401(status, tk.nreq)
    THEN AuthThenSend([tk1 EXCEPT !.nreauth = @ + 1], None)
    ELSE IF status \notin 200..299 THEN Fail(tk1, tok, "HTTPStatusError")
    ELSE IF status = 204 THEN Succeed(tk1, tok, Null)
    ELSE Succeed(tk1, tok, body)

\* (variant) the headers are built before the login call is awaited
HandleLoginEarlyHeaders(tk, tok, outcome) ==
    LET tk1 == [tk EXCEPT !.lr = outcome] IN
    IF outcome = LoginFail THEN Fail(tk1, tok, "HTTPStatusError")
    ELSE [token |-> LoginToken(outcome), task |-> SendRequest(tk1, tok)]

\* (variant) a failed login is logged and the request is sent all the same
HandleLoginSwallows(tk, tok, outcome) ==
    LET tk1 == [tk EXCEPT !.lr = outcome] IN
    IF outcome = LoginFail
    THEN [token |-> tok, task |-> SendRequest(tk1, tok)]
    ELSE [token |-> LoginToken(outcome),
          task |-> SendRequest(tk1, LoginToken(outcome))]

\* _login from the response of the login call on: raise_for_status, the slot
\* takes the token field, and _request goes on to build its headers and send
HandleLogin(tk, tok, outcome) ==
    LET tk1 == [tk EXCEPT !.lr = outcome] IN
    IF outcome = LoginFail THEN Fail(tk1, tok, "HTTPStatusError")
    ELSE [token |-> LoginToken(outcome),
          task |-> SendRequest(tk1, LoginToken(outcome))]

\* (variant) move_item passes the new location as the item's name
MoveItemArgsAsName(args) == "name" :> args["location_id"]

\* move_item: the optional arguments it calls update_item with
MoveItemArgs(args) == "location_id" :> args["location_id"]

\* an operation of the client from its call to its first await
BeginOperation(tk, tok, call) ==
    LET tk1 == [tk EXCEPT !.op = call.op, !.args = call.args] IN
    CASE call.op = "update_item" ->
            BeginRequest([tk1 EXCEPT !.stage = "get"], tok, "GET",
                         ItemEndpoint, Null)
      [] call.op = "move_item" ->
            BeginRequest([tk1 EXCEPT !.stage = "get",
                                     !.args = MoveItemArgs(call.args)],
                         tok, "GET", ItemEndpoint, Null)
      [] call.op \in GetItemsOps ->
            BeginRequestWith(tk1, tok, "GET", "/items", Null,
                             GetItemsParams(ClientArgs(call)))
      [] call.op \in GetLabelsOps ->
            BeginRequest(tk1, tok, "GET", "/labels", Null)
      [] call.op = "create_location" ->
            BeginRequest(tk1, tok, "POST", "/locations",
                         Obj(CreateLocationData(call.args)))
      [] OTHER -> BeginRequest(tk1, tok, "GET", "/locations", Null)

----------------------------------------------------------------------------
(* The remote service *)

\* whether the service accepts the credential of a request
Accepts(msg) == \E tok \in valid : msg.auth = "Bearer " \o tok

\* the statuses a healthy service answers a resource request with
FaithfulStatuses(msg) == IF ~Accepts(msg) THEN {401} ELSE {200}

\* the references to a location and to a label inside an item record
LocationRef(id) ==
    Obj([id |-> Str(id),
         name |-> Str(IF id = "L1" THEN "Garage" ELSE "location " \o id)])
LabelRef(id) == Obj([id |-> Str(id), name |-> Str("label " \o id)])

\* The record after the service accepted a PUT with this body: each field of
\* the body replaces the stored one, locationId and labelIds replace the
\* record's location and labels, and a field the body does not have keeps
\* its stored value.
ApplyPut(rec, body) ==
    LET b == body.v
        plain == DOMAIN b \ {"id", "locationId", "labelIds"}
        loc == IF "locationId" \in DOMAIN b
               THEN "location" :> LocationRef(b["locationId"].v) ELSE <<>>
        labs == IF "labelIds" \in DOMAIN b
                THEN "labels" :> List([i \in 1..Len(b["labelIds"].v) |->
                                        LabelRef(b["labelIds"].v[i].v)])
                ELSE <<>>
    IN  Obj([k \in plain |-> b[k]] @@ loc @@ labs @@ rec.v)

\* the item record once the service has accepted the request
Stored(msg) ==
    IF msg.method = "PUT" /\ msg.endpoint = ItemEndpoint
    THEN ApplyPut(remote, msg.json) ELSE remote

\* the bodies an answer to a request can carry: the JSON result with a 200,
\* nothing with a 204, an error document otherwise
ErrorBody == Obj([error |-> Str("error")])
\* The answer of a healthy service to a list request, the stored collection
\* being the matches it reports: an envelope keyed items for the items, the
\* plain list for locations and labels.
ListBody(msg) ==
    IF msg.endpoint = "/items"
    THEN Obj([items |-> remote, total |-> Num(Len(remote.v))])
    ELSE remote

\* other successful answers to a list request
OtherListBodies(msg) ==
    IF msg.endpoint = "/items"
    THEN {Obj([total |-> Num(0)]), Obj([items |-> Null, total |-> Num(0)]),
          remote}
    ELSE {Null}

FaithfulBodies(msg, status) ==
    IF status = 204 THEN {Null}
    ELSE IF status # 200 THEN {ErrorBody}
    ELSE IF msg.endpoint = ItemEndpoint THEN {Stored(msg)}
    ELSE IF msg.method = "POST" THEN {Obj(("id" :> Str("new")) @@ msg.json.v)}
    ELSE IF remote.t = "list" THEN {ListBody(msg)}
    ELSE {Str(b) : b \in Bodies}

ResponseBodies(msg, status) ==
    FaithfulBodies(msg, status)
    \cup (IF status = 200 /\ msg.method = "GET" /\ remote.t = "list"
          THEN OtherListBodies(msg) ELSE {})

\* the requests seen on the wire once the task has run to its next await
Plain(msg) ==
    [endpoint |-> msg.endpoint, method |-> msg.method, json |-> msg.json,
     params |-> msg.params]
Sent(w, tk) == IF tk.pc \in {"login", "request"} THEN w \cup {Plain(tk.out)} ELSE w

\* whether the client holds tok in its slot or in a request in flight
InUse(tok, slot, tasks) ==
    \/ slot = tok
    \/ \E t \in Tasks : tasks[t].out.auth = "Bearer " \o tok

\* The service's view of the tokens, kept for the static token and for the
\* tokens the client can still present: a token the client has dropped is
\* never presented again.
Tracked(toks, slot, tasks) ==
    {tok \in toks : tok = CfgTok \/ InUse(tok, slot, tasks)}

\* the outcomes of a login call: a healthy service issues a new token, which
\* is one that the client does not hold
FreshToken ==
    TokenName(CHOOSE n \in 1..(NumTasks + 1) :
                /\ ~InUse(TokenName(n), _token, task)
                /\ \A m \in 1..(n - 1) : InUse(TokenName(m), _token, task))
LoginOutcomes ==
    {FreshToken} \cup (IF chaos THEN {LoginFail, LoginNoToken} ELSE {})

----------------------------------------------------------------------------
(* config.py: the endpoint-protection token and its file *)

\* A token, like the text of the token file, is a sequence of characters;
\* " " stands for every whitespace character, and the characters of the n-th
\* token drawn from the random source are the two elements "g" and n.
Whitespace == {" "}

\* str.strip()
RECURSIVE lstrip(_)
lstrip(str) ==
    IF str # <<>> /\ Head(str) \in Whitespace THEN lstrip(Tail(str)) ELSE str

RECURSIVE rstripWhitespace(_)
rstripWhitespace(str) ==
    IF str # <<>> /\ str[Len(str)] \in Whitespace
    THEN rstripWhitespace(SubSeq(str, 1, Len(str) - 1)) ELSE str

strip(str) == rstripWhitespace(lstrip(str))

\* secrets.token_urlsafe(32), drawn for the n-th time on this machine
token_urlsafe(n) == <<"g", ToString(n)>>

\* the token file before anything wrote it
NoFile == [exists |-> FALSE, text |-> <<>>]

\* what the file system does to the three operations on the token file:
\* Path.exists() answers or raises PermissionError, read_text() answers or
\* raises, and mkdir() + write_text() store the text, raise before anything
\* is stored, or raise after the file was opened and truncated
FsConditions ==
    [stat : {"ok", "denied"}, read : {"ok", "fail"},
     write : {"ok", "fail", "truncate"}]

FsOk == [stat |-> "ok", read |-> "ok", write |-> "ok"]

\* TOKEN_FILE.parent.mkdir(...); TOKEN_FILE.write_text(token)
write_text(file, io, token) ==
    CASE io.write = "ok" -> [exists |-> TRUE, text |-> token]
      [] io.write = "truncate" -> [exists |-> TRUE, text |-> <<>>]
      [] OTHER -> file

\* one way out of _load_or_generate_token: the token it returns, the file
\* it leaves, and which file operations it called
Outcome(how, token, file, stat, read, write) ==
    [how |-> how, token |-> token, file |-> file,
     stat |-> stat, read |-> read, write |-> write]

\* (variant) the file's token is trusted only if it is the one just drawn
load_or_generate_always(configured_token, auth_enabled, file, io, fresh) ==
    IF configured_token # <<>>
    THEN Outcome("configured", configured_token, file, FALSE, FALSE, FALSE)
    ELSE IF ~auth_enabled
    THEN Outcome("disabled", <<>>, file, FALSE, FALSE, FALSE)
    ELSE IF io.stat = "denied"
    THEN Outcome("raised", <<>>, file, TRUE, FALSE, FALSE)
    ELSE Outcome("generated", fresh, write_text(file, io, fresh),
                 TRUE, file.exists, TRUE)

\* (variant) the file's token is preferred to a configured one
load_or_generate_file_first(configured_token, auth_enabled, file, io, fresh) ==
    IF auth_enabled /\ io.stat = "ok" /\ file.exists /\ io.read = "ok"
       /\ strip(file.text) # <<>>
    THEN Outcome("file", strip(file.text), file, TRUE, TRUE, FALSE)
    ELSE IF configured_token # <<>>
    THEN Outcome("configured", configured_token, file, FALSE, FALSE, FALSE)
    ELSE IF ~auth_enabled
    THEN Outcome("disabled", <<>>, file, FALSE, FALSE, FALSE)
    ELSE IF io.stat = "denied"
    THEN Outcome("raised", <<>>, file, TRUE, FALSE, FALSE)
    ELSE Outcome("generated", fresh, write_text(file, io, fresh),
                 TRUE, file.exists, TRUE)

\* (variant) the file's text is returned without testing that it is a token
load_or_generate_blank(configured_token, auth_enabled, file, io, fresh) ==
    IF configured_token # <<>>
    THEN Outcome("configured", configured_token, file, FALSE, FALSE, FALSE)
    ELSE IF ~auth_enabled
    THEN Outcome("disabled", <<>>, file, FALSE, FALSE, FALSE)
    ELSE IF io.stat = "denied"
    THEN Outcome("raised", <<>>, file, TRUE, FALSE, FALSE)
    ELSE IF file.exists /\ io.read = "ok"
    THEN Outcome("file", strip(file.text), file, TRUE, TRUE, FALSE)
    ELSE Outcome("generated", fresh, write_text(file, io, fresh),
                 TRUE, file.exists, TRUE)

\* _load_or_generate_token(configured_token, auth_enabled)
_load_or_generate_token(configured_token, auth_enabled, file, io, fresh) ==
    IF configured_token # <<>>
    THEN Outcome("configured", configured_token, file, FALSE, FALSE, FALSE)
    ELSE IF ~auth_enabled
    THEN Outcome("disabled", <<>>, file, FALSE, FALSE, FALSE)
    ELSE IF io.stat = "denied"
    THEN Outcome("raised", <<>>, file, TRUE, FALSE, FALSE)
    ELSE IF file.exists /\ io.read = "ok" /\ strip(file.text) # <<>>
    THEN Outcome("file", strip(file.text), file, TRUE, TRUE, FALSE)
    ELSE Outcome("generated", fresh, write_text(file, io, fresh),
                 TRUE, file.exists, TRUE)

\* os.environ.get(name, default)
EnvGet(env, name, default) == IF name \in DOMAIN env THEN env[name] ELSE default

\* str.lower() on the values given to MCP_AUTH_ENABLED
lower(str) ==
    CASE str \in {"True", "TRUE", "true"} -> "true"
      [] str \in {"False", "false"} -> "false"
      [] OTHER -> str

\* Config.from_environment: the protection flag and the configured token
mcp_auth_enabled(env) == lower(EnvGet(env, "MCP_AUTH_ENABLED", "false")) = "true"
_mcp_auth_token_configured(env) == EnvGet(env, "MCP_AUTH_TOKEN", <<>>)

\* no settings object: the process is not running
NoConfig ==
    [mcp_auth_enabled |-> FALSE, _mcp_auth_token_configured |-> <<>>,
     _mcp_auth_token |-> <<>>, _token_was_auto_generated |-> FALSE]

\* Config.__post_init__ with the token _load_or_generate_token returned
post_init(env, token) ==
    [mcp_auth_enabled |-> mcp_auth_enabled(env),
     _mcp_auth_token_configured |-> _mcp_auth_token_configured(env),
     _mcp_auth_token |-> token,
     _token_was_auto_generated |->
        /\ mcp_auth_enabled(env)
        /\ _mcp_auth_token_configured(env) = <<>>
        /\ token # <<>>]

\* no process was started and no request was dispatched
NoBoot ==
    [starts |-> 0, generated |-> 0, running |-> FALSE, how |-> "",
     first |-> <<>>, clean |-> TRUE, stat |-> FALSE, read |-> FALSE,
     write |-> FALSE]
NoRequest == [path |-> "", headers |-> <<>>]
NoAnswer == [status_code |-> 0, content |-> "", call_next |-> FALSE]

HostIdle ==
    /\ environ = <<>>
    /\ TOKEN_FILE = NoFile
    /\ fs = FsOk
    /\ boot = NoBoot
    /\ request = NoRequest
    /\ answer = NoAnswer

----------------------------------------------------------------------------
(* server.py: the endpoint gate, BearerAuthMiddleware *)

\* the characters of tokens and credentials
Chars == {" ", ":", "a", "c", "g", "u", "x"} \cup {ToString(n) : n \in 0..9}

\* Base64: the encoded text of a string has one element per character, and
\* a text with an element that encodes nothing cannot be decoded
Encode(c) == "=" \o c
Decodable(e) == \E c \in Chars : Encode(c) = e
Decode(e) == CHOOSE c \in Chars : Encode(c) = e
b64encode(str) == [i \in 1..Len(str) |-> Encode(str[i])]

\* base64.b64decode(text).decode("utf-8")
b64decode(text) ==
    IF \A i \in 1..Len(text) : Decodable(text[i])
    THEN [raised |-> FALSE, value |-> [i \in 1..Len(text) |-> Decode(text[i])]]
    ELSE [raised |-> TRUE, value |-> <<>>]

\* str.startswith(scheme): a scheme word with its space is one element
startswith(str, scheme) == str # <<>> /\ Head(str) = scheme

\* decoded.split(":", 1)
split(str) ==
    IF \E i \in 1..Len(str) : str[i] = ":"
    THEN LET i == CHOOSE j \in 1..Len(str) :
                    /\ str[j] = ":"
                    /\ \A k \in 1..(j - 1) : str[k] # ":"
         IN  <<SubSeq(str, 1, i - 1), SubSeq(str, i + 1, Len(str))>>
    ELSE <<str>>

\* the token dispatch takes from the Authorization header; some is false
\* where token is left at None
Token(value) == [some |-> TRUE, value |-> value]
NoToken == [some |-> FALSE, value |-> <<>>]

\* (variant) a Basic credential counts only with a colon
header_token_colon_only(auth_header) ==
    IF startswith(auth_header, "Bearer ")
    THEN Token(Tail(auth_header))
    ELSE IF startswith(auth_header, "Basic ")
    THEN LET decoded == b64decode(Tail(auth_header))
             parts == split(decoded.value)
         IN  IF decoded.raised THEN NoToken
             ELSE IF Len(parts) = 2 THEN Token(parts[2])
             ELSE NoToken
    ELSE NoToken

\* (variant) the user name of a Basic credential is taken as the token
header_token_first_part(auth_header) ==
    IF startswith(auth_header, "Bearer ")
    THEN Token(Tail(auth_header))
    ELSE IF startswith(auth_header, "Basic ")
    THEN LET decoded == b64decode(Tail(auth_header))
             parts == split(decoded.value)
         IN  IF decoded.raised THEN NoToken ELSE Token(parts[1])
    ELSE NoToken

\* dispatch: "Try Bearer token first" / "Try Basic auth"
header_token(auth_header) ==
    IF startswith(auth_header, "Bearer ")
    THEN Token(Tail(auth_header))
    ELSE IF startswith(auth_header, "Basic ")
    THEN LET decoded == b64decode(Tail(auth_header))
             parts == split(decoded.value)
         IN  IF decoded.raised THEN NoToken
             ELSE IF Len(parts) = 2 THEN Token(parts[2])
             ELSE Token(decoded.value)
    ELSE NoToken

\* the two ways out of dispatch
call_next == [status_code |-> 200, content |-> "", call_next |-> TRUE]
Response401(content) ==
    [status_code |-> 401, content |-> content, call_next |-> FALSE]

ExemptPaths == {"/", "/api/status"}

\* BearerAuthMiddleware.dispatch
dispatch(cfg, req) ==
    IF req.path \in ExemptPaths THEN call_next
    ELSE IF ~cfg.mcp_auth_enabled THEN call_next
    ELSE LET auth_header == EnvGet(req.headers, "Authorization", <<>>)
             token == header_token(auth_header)
         IN  IF auth_header = <<>>
             THEN Response401("Missing Authorization header")
             ELSE IF ~token.some \/ token.value = <<>>
             THEN Response401("Invalid Authorization header format")
             ELSE IF token.value # cfg._mcp_auth_token
             THEN Response401("Invalid token")
             ELSE call_next

----------------------------------------------------------------------------
(* Actions *)

\* task t, idle or back from its previous operation, invokes its operation;
\* the client runs to the first HTTP call.  Tasks are interchangeable: a
\* task is taken into use only when the tasks before it are in use.
Call(t) ==
    /\ task[t].pc \in {"idle", "done"}
    /\ left > 0
    /\ plan[t].op # "none"
    /\ \A u \in 1..(t - 1) : task[u].pc # "idle"
    /\ LET r == BeginOperation(NewTask, _token, plan[t]) IN
        /\ _token' = r.token
        /\ task' = [task EXCEPT ![t] = r.task]
        /\ valid' = Tracked(valid, r.token, task')
        /\ wire' = Sent(wire, r.task)
    /\ left' = left - 1
    /\ UNCHANGED <<host, config, base_url, plan, faithful, chaos, remote, received>>

\* the login call of task t is answered
LoginResponse(t) ==
    /\ task[t].pc = "login"
    /\ \E outcome \in LoginOutcomes :
        /\ LET r == HandleLogin(task[t], _token, outcome)
               new == IF outcome \in LoginTokens THEN {outcome} ELSE {} IN
            /\ _token' = r.token
            /\ task' = [task EXCEPT ![t] = r.task]
            /\ valid' = Tracked(valid \cup new, r.token, task')
            /\ wire' = Sent(wire, r.task)
        /\ faithful' = (faithful /\ outcome \in LoginTokens)
    /\ UNCHANGED <<host, config, base_url, plan, left, chaos, remote, received>>

\* the resource call of task t is answered
Response(t) ==
    /\ task[t].pc = "request"
    /\ \E status \in Statuses : \E body \in ResponseBodies(task[t].out, status) :
        /\ chaos \/ (/\ status \in FaithfulStatuses(task[t].out)
                     /\ body \in FaithfulBodies(task[t].out, status))
        /\ faithful' = (/\ faithful
                        /\ status \in FaithfulStatuses(task[t].out)
                        /\ body \in FaithfulBodies(task[t].out, status))
        /\ received' = IF task[t].out.method = "PUT" /\ status \in 200..299
                       THEN task[t].out.json ELSE received
        /\ remote' = IF status \in 200..299 THEN Stored(task[t].out) ELSE remote
        /\ LET r == HandleResponse(task[t], _token, status, body) IN
            /\ _token' = r.token
            /\ task' = [task EXCEPT ![t] = r.task]
            /\ valid' = Tracked(valid, r.token, task')
            /\ wire' = Sent(wire, r.task)
    /\ UNCHANGED <<host, config, base_url, plan, left, chaos>>

\* the remote service stops accepting a token that the client holds
Expire ==
    /\ \E tok \in valid :
        /\ InUse(tok, _token, task)
        /\ valid' = valid \ {tok}
        /\ task' = [t \in Tasks |->
                        IF task[t].out.auth = "Bearer " \o tok
                        THEN [task[t] EXCEPT !.hit = TRUE] ELSE task[t]]
    /\ UNCHANGED <<host, config, base_url, _token, plan, left, faithful, chaos, remote,
                   received, wire>>

Next ==
    \/ \E t \in Tasks : Call(t)
    \/ \E t \in Tasks : LoginResponse(t)
    \/ \E t \in Tasks : Response(t)
    \/ Expire

----------------------------------------------------------------------------
(* Specifications *)

\* the settings object Config.from_environment builds: it defines
\* homebox_token and no use_token_auth, homebox_username or homebox_password
EnvironmentConfigs ==
    {[has_auth_settings |-> FALSE, use_token_auth |-> FALSE,
      homebox_token |-> h] : h \in {"", CfgTok}}

\* a settings object with the authentication mode, the credentials and the
\* static token; the static token is read in token mode only
CredentialsConfig ==
    [has_auth_settings |-> TRUE, use_token_auth |-> FALSE, homebox_token |-> ""]

AuthConfigs ==
    {CredentialsConfig} \cup
    {[has_auth_settings |-> TRUE, use_token_auth |-> TRUE, homebox_token |-> h] :
        h \in {"", CfgTok}}

\* the client after construction, with every task about to invoke plain
\* single-request operations against a remote side that may fail
Init ==
    /\ config \in EnvironmentConfigs \cup AuthConfigs
    /\ _token = None
    /\ task = [t \in Tasks |-> NewTask]
    /\ plan = [t \in Tasks |-> RequestCall]
    /\ left = MaxOps
    /\ valid = {CfgTok}
    /\ faithful = TRUE
    /\ chaos = TRUE
    /\ remote = Null
    /\ received = Null
    /\ wire = {}
    /\ HostIdle
    /\ base_url = api_base_url(DefaultUrl)

Spec == Init /\ [][Next]_vars

\* The item records the remote service can hold.  Every record has an id, a
\* name and a location; description, quantity, labels and the extended
\* attributes may be missing, and description may be null.
Optional(k, vals) == {<<>>} \cup {k :> v : v \in vals}

StoredExtended ==
    [insured |-> Bool(TRUE), archived |-> Bool(TRUE), assetId |-> Str("A0"),
     serialNumber |-> Str("S0"), modelNumber |-> Str("M0"),
     manufacturer |-> Str("F0"), purchasePrice |-> Num(3), notes |-> Str("N0")]

RemoteItems ==
    {Obj([id |-> Str(ItemId), name |-> Str("n"),
          location |-> Obj([id |-> Str("L1"), name |-> Str("Garage")])]
         @@ d @@ q @@ l @@ e) :
        d \in Optional("description", {Null, Str("d")}),
        q \in Optional("quantity", {Num(0), Num(5)}),
        l \in Optional("labels", {List(<<>>), List(<<LabelRef("lb1"), LabelRef("lb2")>>)}),
        e \in {<<>>, StoredExtended}}

\* The values a caller passes for each optional argument of update_item: a
\* falsy one and a truthy one.
ArgNames ==
    {"name", "description", "quantity", "location_id", "labels"} \cup ExtendedArgs

ArgValues(a) ==
    CASE a \in {"quantity", "purchase_price"} -> {Num(0), Num(7)}
      [] a \in {"insured", "archived"} -> {Bool(FALSE), Bool(TRUE)}
      [] a = "labels" -> {List(<<>>), List(<<Str("lb3")>>)}
      [] a = "location_id" -> {Str("L2")}
      [] OTHER -> {Str(""), Str("new " \o a)}

UpdateItemArgs ==
    UNION {{f \in [S -> UNION {ArgValues(a) : a \in S}] :
                \A a \in S : f[a] \in ArgValues(a)} :
           S \in {T \in SUBSET ArgNames : Cardinality(T) <= MaxSupplied}}

\* the client after construction, with one task about to call update_item
\* or move_item on an item of a healthy remote service whose tokens may expire
ItemCalls ==
    {UpdateItemCall(args) : args \in UpdateItemArgs} \cup {MoveItemCall("L2")}

InitUpdate ==
    /\ config = CredentialsConfig
    /\ _token = None
    /\ task = [t \in Tasks |-> NewTask]
    /\ \E call \in ItemCalls :
        plan = [t \in Tasks |-> IF t = 1 THEN call ELSE NoCall]
    /\ left = 1
    /\ valid = {CfgTok}
    /\ faithful = TRUE
    /\ chaos = FALSE
    /\ remote \in RemoteItems
    /\ received = Null
    /\ wire = {}
    /\ HostIdle
    /\ base_url = api_base_url(DefaultUrl)

SpecUpdate == InitUpdate /\ [][Next]_vars

\* Two update_item calls on the same item that supply disjoint fields, one
\* field each, on a record that has every field.
RaceArgNames == {"name", "quantity", "labels", "manufacturer"}

RaceArgs ==
    {f \in UpdateItemArgs :
        Cardinality(DOMAIN f) = 1 /\ DOMAIN f \subseteq RaceArgNames}

RaceItems ==
    {r \in RemoteItems :
        /\ {"description", "quantity", "labels", "manufacturer"} \subseteq DOMAIN r.v
        /\ r.v["description"] = Str("d")
        /\ r.v["quantity"] = Num(5)
        /\ Len(r.v["labels"].v) = 2}

\* the client after construction, with two tasks about to call update_item on
\* the same item of a healthy remote service
InitRace ==
    /\ config = CredentialsConfig
    /\ _token = None
    /\ task = [t \in Tasks |-> NewTask]
    /\ \E a1 \in RaceArgs : \E a2 \in RaceArgs :
        /\ DOMAIN a1 \cap DOMAIN a2 = {}
        /\ plan = [t \in Tasks |->
                        CASE t = 1 -> UpdateItemCall(a1)
                          [] t = 2 -> UpdateItemCall(a2)
                          [] OTHER -> NoCall]
    /\ left = 2
    /\ valid = {CfgTok}
    /\ faithful = TRUE
    /\ chaos = FALSE
    /\ remote \in RaceItems
    /\ received = Null
    /\ wire = {}
    /\ HostIdle
    /\ base_url = api_base_url(DefaultUrl)

SpecRace == InitRace /\ [][Next]_vars

\* One update_item or move_item call against a remote side that may fail
\* arbitrarily, in every authentication mode.
FetchCalls ==
    {UpdateItemCall(<<>>), UpdateItemCall("name" :> Str("new name")),
     MoveItemCall("L2")}

FetchItems ==
    {r \in RemoteItems :
        "manufacturer" \in DOMAIN r.v /\ "description" \notin DOMAIN r.v
        /\ "quantity" \notin DOMAIN r.v}

InitFetch ==
    /\ config \in AuthConfigs
    /\ _token = None
    /\ task = [t \in Tasks |-> NewTask]
    /\ \E call \in FetchCalls :
        plan = [t \in Tasks |-> IF t = 1 THEN call ELSE NoCall]
    /\ left = 1
    /\ valid = {CfgTok}
    /\ faithful = TRUE
    /\ chaos = TRUE
    /\ remote \in FetchItems
    /\ received = Null
    /\ wire = {}
    /\ HostIdle
    /\ base_url = api_base_url(DefaultUrl)

SpecFetch == InitFetch /\ [][Next]_vars

\* The settings object with its HOMEBOX_URL, any string of up to MaxLen
\* characters, and the client about to be constructed from it.
Urls == UNION {[1..n -> UrlChars] : n \in 0..MaxLen}

InitUrl ==
    /\ config \in {[homebox_url |-> u] : u \in Urls}
    /\ base_url = <<>>
    /\ _token = None
    /\ task = [t \in Tasks |-> NewTask]
    /\ plan = [t \in Tasks |-> NoCall]
    /\ left = 0
    /\ valid = {CfgTok}
    /\ faithful = TRUE
    /\ chaos = FALSE
    /\ remote = Null
    /\ received = Null
    /\ wire = {}
    /\ HostIdle

\* HomeboxClient.__init__: self.base_url = config.api_base_url
Construct ==
    /\ base_url = <<>>
    /\ base_url' = api_base_url(config.homebox_url)
    /\ UNCHANGED <<host, config, _token, task, plan, left, valid, faithful, chaos,
                   remote, received, wire>>

NextUrl == Construct

SpecUrl == InitUrl /\ [][NextUrl]_vars

\* The collections the remote service reports for a list request: no
\* record, one, or two in either order, the second with its optional
\* fields missing.
Collections(a, b) == {List(<<>>), List(<<a>>), List(<<a, b>>), List(<<b, a>>)}

LocationCollections ==
    Collections(
        Obj([id |-> Str("L1"), name |-> Str("Garage"), description |-> Str("g"),
             parent |-> Obj([id |-> Str("L0"), name |-> Str("Home")]),
             itemCount |-> Num(2)]),
        Obj([id |-> Str("L2"), name |-> Str("Attic"), parent |-> Null]))

ItemCollections ==
    Collections(
        CHOOSE r \in RaceItems : TRUE,
        Obj([id |-> Str("i2"), name |-> Str("m"), location |-> LocationRef("L2")]))

LabelCollections ==
    Collections(
        Obj([id |-> Str("lb1"), name |-> Str("label lb1"),
             description |-> Str("d"), color |-> Str("#FF5733"),
             itemCount |-> Num(1)]),
        Obj([id |-> Str("lb2"), name |-> Str("label lb2")]))

\* optional string arguments: for each supplied one the empty string or a
\* non-empty one
OptionalArgs(names) ==
    UNION {[S -> {Str(""), Str("x")}] :
           S \in {T \in SUBSET names : Cardinality(T) <= MaxSupplied}}

FilterArgs == OptionalArgs({"location_id", "label_id", "search"})

CreateLocationArgs ==
    {("name" :> Str("Garage")) @@ f : f \in OptionalArgs({"description", "parent_id"})}

\* a list operation or create_location, with the collection it runs against
OperationRuns ==
    ({RequestCall, ListCall("homebox_list_locations", <<>>)}
        \X LocationCollections)
    \cup ({ListCall(op, f) : op \in {"get_items", "homebox_list_items"},
                             f \in FilterArgs}
          \X ItemCollections)
    \cup ({ListCall("homebox_search", [query |-> q]) : q \in {Str(""), Str("x")}}
          \X ItemCollections)
    \cup ({ListCall(op, <<>>) : op \in GetLabelsOps} \X LabelCollections)
    \cup ({CreateLocationCall(a) : a \in CreateLocationArgs} \X {List(<<>>)})

\* the client after construction, with one task about to invoke a list
\* operation or create_location against a remote side that may fail
InitOperations ==
    /\ config \in AuthConfigs
    /\ _token = None
    /\ task = [t \in Tasks |-> NewTask]
    /\ \E run \in OperationRuns :
        /\ plan = [t \in Tasks |-> IF t = 1 THEN run[1] ELSE NoCall]
        /\ remote = run[2]
    /\ left = 1
    /\ valid = {CfgTok}
    /\ faithful = TRUE
    /\ chaos = TRUE
    /\ received = Null
    /\ wire = {}
    /\ HostIdle
    /\ base_url = api_base_url(DefaultUrl)

SpecOperations == InitOperations /\ [][Next]_vars

\* The records the list tools are given one at a time: a location with its
\* parent, description and item count present or missing and its parent
\* possibly null, an item with its location and labels present, missing or
\* null and its quantity and insured flag present or missing.
ReshapeLocations ==
    {Obj([id |-> Str("L1"), name |-> Str("Garage")] @@ p @@ d @@ n) :
        p \in Optional("parent", {Null, LocationRef("L0")}),
        d \in Optional("description", {Str("g")}),
        n \in Optional("itemCount", {Num(2)})}

ReshapeItems ==
    {Obj([id |-> Str("i1"), name |-> Str("n")] @@ l @@ b @@ q @@ i) :
        l \in Optional("location", {Null, LocationRef("L1")}),
        b \in Optional("labels", {Null, List(<<LabelRef("lb1"), LabelRef("lb2")>>)}),
        q \in Optional("quantity", {Num(5)}),
        i \in Optional("insured", {Bool(TRUE)})}

ReshapeRuns ==
    ({ListCall("homebox_list_locations", <<>>)} \X ReshapeLocations)
    \cup ({ListCall("homebox_list_items", <<>>)} \X ReshapeItems)

\* the client after construction, with one task about to invoke a list tool
\* against a healthy remote service that holds one record
InitReshape ==
    /\ config \in AuthConfigs
    /\ _token = None
    /\ task = [t \in Tasks |-> NewTask]
    /\ \E run \in ReshapeRuns :
        /\ plan = [t \in Tasks |-> IF t = 1 THEN run[1] ELSE NoCall]
        /\ remote = List(<<run[2]>>)
    /\ left = 1
    /\ valid = {CfgTok}
    /\ faithful = TRUE
    /\ chaos = FALSE
    /\ received = Null
    /\ wire = {}
    /\ HostIdle
    /\ base_url = api_base_url(DefaultUrl)

SpecReshape == InitReshape /\ [][Next]_vars

----------------------------------------------------------------------------
(* The server process on its machine: starts, restarts and the token file *)

\* the API client before any settings object was handed to it
ClientIdle ==
    /\ base_url = <<>>
    /\ _token = None
    /\ task = [t \in Tasks |-> NewTask]
    /\ plan = [t \in Tasks |-> NoCall]
    /\ left = 0
    /\ valid = {CfgTok}
    /\ faithful = TRUE
    /\ chaos = FALSE
    /\ remote = Null
    /\ received = Null
    /\ wire = {}

client == <<base_url, _token, task, plan, left, valid, faithful, chaos,
            remote, received, wire>>

\* the environments of the server process: each variable unset or set, the
\* flag to a spelling of true or to something else, the token to the empty
\* string, to whitespace or to a token
Environments ==
    {e1 @@ e2 :
        e1 \in Optional("MCP_AUTH_ENABLED", {"true", "True", "false", "1"}),
        e2 \in Optional("MCP_AUTH_TOKEN", {<<>>, <<" ">>, <<"c">>})}

\* the token file when the machine is set up: missing, empty, blank, or
\* holding an earlier token with or without surrounding whitespace
TokenFiles ==
    {NoFile} \cup
    {[exists |-> TRUE, text |-> x] :
        x \in {<<>>, <<" ">>, <<"a">>, <<" ", "a", " ">>}}

InitToken ==
    /\ config = NoConfig
    /\ ClientIdle
    /\ environ \in Environments
    /\ TOKEN_FILE \in TokenFiles
    /\ fs \in FsConditions
    /\ boot = NoBoot
    /\ request = NoRequest
    /\ answer = NoAnswer

\* The process starts, or stops and starts again: config.py's module level
\* runs config = Config.from_environment(), whose __post_init__ loads or
\* generates the protection token.  An exception that leaves
\* _load_or_generate_token ends the process before it serves anything.
Start ==
    /\ boot.starts < MaxStarts
    /\ LET r == _load_or_generate_token(
                    _mcp_auth_token_configured(environ),
                    mcp_auth_enabled(environ), TOKEN_FILE, fs,
                    token_urlsafe(boot.generated + 1))
           up == r.how # "raised"
       IN  /\ TOKEN_FILE' = r.file
           /\ config' = IF up THEN post_init(environ, r.token) ELSE NoConfig
           /\ boot' = [starts |-> boot.starts + 1,
                       generated |-> boot.generated +
                                     (IF r.how = "generated" THEN 1 ELSE 0),
                       running |-> up,
                       how |-> r.how,
                       first |-> IF boot.starts = 0 THEN r.token ELSE boot.first,
                       clean |-> boot.clean /\ fs = FsOk,
                       stat |-> r.stat, read |-> r.read, write |-> r.write]
    /\ request' = NoRequest
    /\ answer' = NoAnswer
    /\ UNCHANGED <<client, environ, fs>>

\* between two starts the file system begins or stops refusing operations
\* on the token file
Remount ==
    /\ fs' \in FsConditions \ {fs}
    /\ UNCHANGED <<client, config, environ, TOKEN_FILE, boot, request, answer>>

NextToken ==
    \/ Start
    \/ Remount

SpecToken == InitToken /\ [][NextToken]_vars

\* The requests a client sends to the running server: to an exempt path or
\* to another one, with no Authorization header, an empty one, or one that
\* presents the empty token, a wrong token or the server's token as a
\* Bearer value, as the password of a Basic credential, as its user name or
\* as a Basic credential without a colon; a Basic text that cannot be
\* decoded, another scheme, and the Bearer scheme in lower case.
Presented(cfg) == {<<>>, <<"x">>, cfg._mcp_auth_token}

AuthHeaders(cfg) ==
    {<<>>, <<"Basic ", "?">>}
    \cup {<<"Bearer ">> \o x : x \in Presented(cfg)}
    \cup {<<"Basic ">> \o b64encode(<<"u", ":">> \o x) : x \in Presented(cfg)}
    \cup {<<"Basic ">> \o b64encode(x \o <<":", "x">>) : x \in Presented(cfg)}
    \cup {<<"Basic ">> \o b64encode(x) : x \in Presented(cfg)}
    \cup {<<"Digest ">> \o cfg._mcp_auth_token,
          <<"bearer ">> \o cfg._mcp_auth_token}

Paths == ExemptPaths \cup {"/sse", "/api/status/"}

Requests(cfg) ==
    [path : Paths,
     headers : {<<>>} \cup {"Authorization" :> h : h \in AuthHeaders(cfg)}]

\* the running server is sent its first request since the start, which
\* passes through the gate; the gate keeps nothing from one request to the
\* next
Dispatch ==
    /\ boot.running
    /\ request = NoRequest
    /\ \E req \in Requests(config) :
        /\ request' = req
        /\ answer' = dispatch(config, req)
    /\ UNCHANGED <<client, config, environ, TOKEN_FILE, fs, boot>>

NextGate ==
    \/ Start
    \/ Dispatch

SpecGate == InitToken /\ [][NextGate]_vars

----------------------------------------------------------------------------
(* Properties of the authentication protocol, checked under Spec *)

Bearer(tok) == "Bearer " \o tok
Held(tok) == tok # None /\ tok # ""
Is2xx(status) == status \in 200..299

\* task t takes a step that sends a resource call, a login call, or answers
\* the n-th resource call of its invocation
SendsResource(t) == task'[t].pc = "request" /\ task'[t] # task[t]
                    /\ task'[t].out # task[t].out
StartsOperation(t) == task[t].pc \in {"idle", "done"} /\ task'[t].pc # task[t].pc
LoginAnswered(t) == task[t].pc = "login" /\ task'[t].pc # "login"
FirstAnswered(t) == task[t].pc = "request" /\ task[t].nreq = 1
                    /\ task'[t].s1 # 0 /\ task[t].s1 = 0
RetryAnswered(t) == task[t].pc = "request" /\ task[t].nreq = 2
                    /\ task'[t].pc = "done"

\* C1: an operation whose first HTTP call returned 401, whose
\* re-authentication succeeded and whose retried call returned a 2xx status
\* completes successfully with the retried call's result: the caller sees
\* no error.
C1_RetryResultReturned ==
    \A t \in Tasks :
        (/\ task[t].op = "request"
         /\ task[t].pc = "done"
         /\ task[t].s1 = 401
         /\ Is2xx(task[t].s2))
        => /\ task[t].result = "ok"
           /\ task[t].value = IF task[t].s2 = 204 THEN Null ELSE task[t].b2

C1_Witness ==
    \E t \in Tasks :
        /\ task[t].pc = "done"
        /\ task[t].nreq = 2
        /\ task[t].s1 = 401
        /\ task[t].s2 = 200
        /\ task[t].result = "ok"
        /\ task[t].value = Str("b1")

\* C2: one invocation of _request sends the original call at most twice,
\* the second time only after a 401 and after one run of the authentication
\* step; a 401 answer to the retry ends the invocation with an error, so an
\* invocation makes at most four HTTP calls.
C2_AtMostOneRetry ==
    \A t \in Tasks :
        /\ task[t].nreq <= 2
        /\ task[t].nreauth <= 1
        /\ task[t].nreq = 2 => task[t].s1 = 401
        /\ (task[t].nreq = 2 /\ task[t].pc # "done") => task[t].nreauth = 1
        /\ task[t].nreauth = 1 => task[t].s1 = 401
        /\ task[t].nlogin <= task[t].nreauth + 1
        /\ task[t].nreq + task[t].nlogin <= 4
        /\ task[t].s2 = 401 => (task[t].pc = "done" /\ task[t].result = "error")

C2_Witness ==
    \E t \in Tasks :
        /\ task[t].pc = "done"
        /\ task[t].nreq = 2
        /\ task[t].s1 = 401
        /\ task[t].s2 = 401
        /\ task[t].result = "error"

\* C3: an operation that starts with no token held adopts the configured
\* token without a login call when the configuration designates static-token
\* auth and a token string is present, and otherwise makes exactly one login
\* call with username and password; the slot takes the token field of the
\* login response.
C3_AdoptOrLogin ==
    [][\A t \in Tasks :
        /\ (StartsOperation(t) /\ _token = None) =>
              IF config.has_auth_settings /\ config.use_token_auth
                    /\ config.homebox_token # ""
              THEN /\ _token' = config.homebox_token
                   /\ task'[t].nlogin = 0
                   /\ task'[t].pc = "request"
              ELSE /\ task'[t].nlogin = 1
                   /\ task'[t].pc = "login"
                   /\ task'[t].out = LoginMsg
        /\ (LoginAnswered(t) /\ task'[t].lr \in LoginTokens) =>
              _token' = task'[t].lr
      ]_vars

\* C4: once the client holds a token, every request it sends to a resource
\* endpoint carries "Bearer " followed by the token that the slot holds when
\* the request is sent.
C4_BearerIsHeldToken ==
    [][\A t \in Tasks :
        (SendsResource(t) /\ Held(_token')) =>
            /\ task'[t].out.endpoint # LoginEndpoint
            /\ task'[t].out.auth = Bearer(_token')
      ]_vars

C4_Witness ==
    \E t \in Tasks :
        /\ task[t].pc = "request"
        /\ task[t].nreq = 2
        /\ _token \in LoginTokens
        /\ task[t].out.auth = Bearer(_token)
        /\ task[t].a1 # task[t].a2
        /\ task[t].a1 # NoAuth

C6_TokenlessLogin ==
    [][\A t \in Tasks :
        /\ (LoginAnswered(t) /\ task'[t].lr = LoginNoToken) =>
              /\ _token' = None
              /\ task'[t].pc = "request"
              /\ task'[t].out.endpoint \in ResourceEndpoints
              /\ task'[t].out.auth = NoAuth
        /\ (StartsOperation(t) /\ _token = None /\ config = CredentialsConfig) =>
              /\ task'[t].pc = "login"
              /\ task'[t].out = LoginMsg
              /\ task'[t].nlogin = 1
      ]_vars

C6_Witness ==
    \E t, u \in Tasks :
        /\ task[t].pc = "request"
        /\ task[t].lr = LoginNoToken
        /\ task[t].out.auth = NoAuth
        /\ _token = None
        /\ task[u].pc = "login"
        /\ task[u].nreq = 0

\* C7: with credentials, while every login succeeds and the service accepts
\* every token it issued until it expires it, whatever the interleaving of
\* the operations: the slot holds nothing or a token of the login endpoint;
\* every resource call carries such a token and a retry carries the one
\* that the task's own re-login returned; and an operation fails only when
\* the service expired the token of its retry while the retry was in flight.
C7_SlotAndRetries ==
    (faithful /\ config = CredentialsConfig) =>
        /\ _token \in {None} \cup LoginTokens
        /\ \A t \in Tasks :
            /\ task[t].pc = "request" =>
                  task[t].out.auth \in {Bearer(tok) : tok \in LoginTokens}
            /\ (task[t].pc = "request" /\ task[t].nreq = 2) =>
                  /\ task[t].lr \in LoginTokens
                  /\ task[t].out.auth = Bearer(task[t].lr)
            /\ (task[t].pc = "done" /\ task[t].result = "error") =>
                  task[t].s2 = 401

C7_RacingReloginsBenign ==
    /\ []C7_SlotAndRetries
    /\ [][\A t \in Tasks :
            (/\ faithful' /\ config = CredentialsConfig
             /\ task[t].pc # "done" /\ task'[t].pc = "done"
             /\ ~task[t].hit)
            => task'[t].result = "ok"
         ]_vars

C7_Witness ==
    \E t, u \in Tasks :
        /\ faithful
        /\ config = CredentialsConfig
        /\ task[t].pc = "request" /\ task[t].nreq = 2
        /\ task[t].out.auth = Bearer(_token)
        /\ task[u].pc = "login" /\ task[u].s1 = 401
        /\ task[u].a1 = task[t].a1

----------------------------------------------------------------------------
(* Properties of update_item's request body, checked under SpecUpdate *)

\* the PUT of task t: sent by update_item with the merged body, after the
\* GET that fetched the record the remote service holds
PutOf(t) ==
    /\ task[t].op = "update_item"
    /\ task[t].stage = "put"

\* the body built from the merge is the body of the PUT being prepared, of
\* the PUT in flight and of the PUT the remote service accepted
PutWellFormed(t) ==
    /\ task[t].args = plan[t].args
    /\ task[t].pc \in {"login", "request"} =>
            /\ task[t].current = remote
            /\ task[t].req.method = "PUT"
            /\ task[t].req.endpoint = ItemEndpoint
            /\ task[t].req.json = task[t].data
    /\ task[t].pc = "request" =>
            /\ task[t].out.method = "PUT"
            /\ task[t].out.json = task[t].data
    /\ received # Null => received = task[t].data

\* C8: the PUT body of update_item has name, description, quantity and
\* locationId; each is the caller's value when the caller supplied one, and
\* otherwise the value the fetched record has for it.
C8_AlwaysSentFields ==
    \A t \in Tasks : PutOf(t) =>
        LET d == task[t].data.v
            cur == task[t].current.v
            args == task[t].args
        IN  /\ PutWellFormed(t)
            /\ {"name", "description", "quantity", "locationId"} \subseteq DOMAIN d
            /\ \A k \in {"name", "description", "quantity"} :
                    IF k \in DOMAIN args THEN d[k] = args[k]
                    ELSE k \in DOMAIN cur => d[k] = cur[k]
            /\ IF "location_id" \in DOMAIN args
               THEN d["locationId"] = args["location_id"]
               ELSE d["locationId"] = cur["location"].v["id"]

C8_Witness ==
    \E t \in Tasks :
        /\ PutOf(t)
        /\ task[t].pc = "request"
        /\ task[t].out.method = "PUT"
        /\ DOMAIN task[t].args = {"name", "quantity"}
        /\ task[t].args["name"] = Str("")
        /\ task[t].args["quantity"] = Num(0)
        /\ {"quantity", "description"} \subseteq DOMAIN task[t].current.v
        /\ task[t].current.v["quantity"] = Num(5)
        /\ task[t].current.v["description"] = Null
        /\ task[t].out.json.v["description"] = Null
        /\ task[t].out.json.v["quantity"] = Num(0)

\* C9: the caller's label list, when supplied, is sent as it is, the empty
\* list included; otherwise the ids of the fetched record's labels are
\* sent, in the record's order (no labelIds entry when it has none).
C9_Labels ==
    \A t \in Tasks : PutOf(t) =>
        LET d == task[t].data.v
            cur == task[t].current.v
            args == task[t].args
            labels == IF "labels" \in DOMAIN cur /\ cur["labels"].t = "list"
                      THEN cur["labels"].v ELSE <<>>
            sent == IF "labelIds" \in DOMAIN d THEN d["labelIds"].v ELSE <<>>
        IN  /\ PutWellFormed(t)
            /\ IF "labels" \in DOMAIN args
               THEN "labelIds" \in DOMAIN d /\ d["labelIds"] = args["labels"]
               ELSE /\ Len(sent) = Len(labels)
                    /\ \A i \in 1..Len(labels) : sent[i] = labels[i].v["id"]
                    /\ "labelIds" \in DOMAIN d <=> Len(labels) > 0

C9_Witness ==
    \E t \in Tasks :
        /\ PutOf(t)
        /\ task[t].pc = "request"
        /\ task[t].out.method = "PUT"
        /\ "labels" \in DOMAIN task[t].args
        /\ task[t].args["labels"] = List(<<>>)
        /\ "labels" \in DOMAIN task[t].current.v
        /\ Len(task[t].current.v["labels"].v) = 2
        /\ task[t].out.json.v["labelIds"] = List(<<>>)

\* C10: each of insured, archived, asset_id, serial_number, model_number,
\* manufacturer, purchase_price and notes is in the PUT body exactly when
\* the caller supplied it, false, 0 and the empty string included, and then
\* with the caller's value: none is taken from the fetched record.
ExtendedPairs ==
    {<<"insured", "insured">>, <<"archived", "archived">>,
     <<"asset_id", "assetId">>, <<"serial_number", "serialNumber">>,
     <<"model_number", "modelNumber">>, <<"manufacturer", "manufacturer">>,
     <<"purchase_price", "purchasePrice">>, <<"notes", "notes">>}

C10_ExtendedOnlyIfSupplied ==
    \A t \in Tasks : PutOf(t) =>
        LET d == task[t].data.v
            args == task[t].args
        IN  /\ PutWellFormed(t)
            /\ \A p \in ExtendedPairs :
                /\ p[2] \in DOMAIN d <=> p[1] \in DOMAIN args
                /\ p[1] \in DOMAIN args => d[p[2]] = args[p[1]]
            /\ DOMAIN d \subseteq
                    {"id", "name", "description", "quantity", "locationId",
                     "labelIds"} \cup {p[2] : p \in ExtendedPairs}

C10_Witness ==
    \E t \in Tasks :
        /\ PutOf(t)
        /\ task[t].pc = "request"
        /\ task[t].out.method = "PUT"
        /\ DOMAIN task[t].args = {"insured", "purchase_price"}
        /\ task[t].args["insured"] = Bool(FALSE)
        /\ task[t].args["purchase_price"] = Num(0)
        /\ "manufacturer" \in DOMAIN task[t].current.v
        /\ "manufacturer" \notin DOMAIN task[t].out.json.v
        /\ task[t].out.json.v["insured"] = Bool(FALSE)
        /\ task[t].out.json.v["purchasePrice"] = Num(0)

----------------------------------------------------------------------------
(* Properties of update_item against the stored record *)

\* the name, description, quantity, location and labels a reader of the
\* record gets
CoreView(rec) ==
    [k \in {"name", "description", "quantity", "location", "labels"} |->
        ItemSummary(rec.v).v[k]]

Absent == [t |-> "absent"]

C12_OnlySuppliedExtendedChange ==
    \A t \in Tasks :
        (/\ task[t].op = "update_item"
         /\ task[t].stage = "put"
         /\ DOMAIN task[t].args # {}
         /\ DOMAIN task[t].args \subseteq ExtendedArgs)
        => /\ \A a \in ExtendedArgs \ DOMAIN task[t].args :
                Get(remote.v, ExtKey(a), Absent)
                    = Get(task[t].current.v, ExtKey(a), Absent)
           /\ CoreView(remote) = CoreView(task[t].current)
           /\ received # Null =>
                \A a \in DOMAIN task[t].args :
                    /\ ExtKey(a) \in DOMAIN remote.v
                    /\ remote.v[ExtKey(a)] = task[t].args[a]

C12_Witness ==
    \E t \in Tasks :
        /\ task[t].op = "update_item"
        /\ task[t].pc = "done"
        /\ task[t].result = "ok"
        /\ DOMAIN task[t].args = {"manufacturer"}
        /\ task[t].args["manufacturer"] = Str("new manufacturer")
        /\ "serialNumber" \in DOMAIN task[t].current.v
        /\ task[t].current.v["manufacturer"] = Str("F0")
        /\ remote.v["manufacturer"] = Str("new manufacturer")
        /\ remote.v["serialNumber"] = Str("S0")
        /\ remote.v["notes"] = Str("N0")

\* whether the stored record has value v for the field of argument a
HasSupplied(rec, a, v) ==
    CASE a = "location_id" -> rec.v["location"].v["id"] = v
      [] a = "labels" ->
            /\ Len(rec.v["labels"].v) = Len(v.v)
            /\ \A i \in 1..Len(v.v) : rec.v["labels"].v[i].v["id"] = v.v[i]
      [] a \in ExtendedArgs ->
            ExtKey(a) \in DOMAIN rec.v /\ rec.v[ExtKey(a)] = v
      [] OTHER -> a \in DOMAIN rec.v /\ rec.v[a] = v

\* C13: when two update_item calls on the same item supply disjoint fields
\* and both have completed successfully, the stored record has the values
\* of both calls, however the calls interleave.
C13_BothUpdatesKept ==
    (\A t \in {1, 2} : task[t].op = "update_item" /\ task[t].pc = "done"
                        /\ task[t].result = "ok")
    => \A t \in {1, 2} : \A a \in DOMAIN task[t].args :
            HasSupplied(remote, a, task[t].args[a])

\* C14: move_item(id, loc) and update_item(id, location_id=loc) started on
\* the same record send the same requests with the same bodies (the GET of
\* the item, then the PUT of the record merged with the one location_id)
\* and leave the same record: each is the same function of the fetched
\* record and loc.
MovesOrUpdatesLocation(t) ==
    \/ task[t].op = "move_item"
    \/ task[t].op = "update_item" /\ DOMAIN plan[t].args = {"location_id"}

MoveRequests(t) ==
    LET upd == "location_id" :> plan[t].args["location_id"]
        get == [endpoint |-> ItemEndpoint, method |-> "GET", json |-> Null,
                params |-> NoParams]
        put == [endpoint |-> ItemEndpoint, method |-> "PUT",
                json |-> Obj(UpdateItemData(ItemId, upd, task[t].current.v)),
                params |-> NoParams]
    IN  IF task[t].stage = "put" THEN <<get, put>> ELSE <<get>>

C14_MoveIsUpdateLocation ==
    \A t \in Tasks : MovesOrUpdatesLocation(t) =>
        LET reqs == MoveRequests(t) IN
        /\ wire \ {Plain(LoginMsg)} \subseteq {reqs[i] : i \in 1..Len(reqs)}
        /\ task[t].pc = "request" => Plain(task[t].out) = reqs[Len(reqs)]
        /\ received = Null => remote = IF task[t].stage = "put"
                                       THEN task[t].current ELSE remote
        /\ received # Null =>
                /\ Len(reqs) = 2
                /\ received = reqs[2].json
                /\ remote = ApplyPut(task[t].current, reqs[2].json)
                /\ remote.v["location"] =
                        LocationRef(plan[t].args["location_id"].v)
        /\ (task[t].pc = "done" /\ task[t].result = "ok") =>
                received # Null /\ task[t].value = remote

C14_Witness ==
    \E t \in Tasks :
        /\ task[t].op = "move_item"
        /\ task[t].pc = "done"
        /\ task[t].result = "ok"
        /\ task[t].current.v["location"].v["id"] = Str("L1")
        /\ remote.v["location"].v["id"] = Str("L2")
        /\ Cardinality(wire) = 3

\* C15: when the fetch inside update_item fails (a login failure, a non-2xx
\* answer to the GET, a second 401, an answer that is not a record), the
\* update ends with an error, no PUT has been sent and the stored record is
\* as it was; a PUT is only ever sent after a fetch that returned the
\* stored record.
IsPut(m) == m.method = "PUT"

C15_FetchStage ==
    \A t \in Tasks : task[t].op \in {"update_item", "move_item"} =>
        /\ task[t].stage = "get" =>
                /\ \A m \in wire : ~IsPut(m)
                /\ received = Null
                /\ task[t].pc = "done" => task[t].result = "error"
        /\ (task[t].stage = "put" /\ received = Null) =>
                task[t].current = remote

C15_FetchFailureFailsUpdate ==
    /\ []C15_FetchStage
    /\ [][\A t \in Tasks :
            (task[t].stage = "get" /\ task'[t].stage = "get")
                => remote' = remote]_vars

C15_Witness ==
    \E t \in Tasks :
        /\ task[t].op = "update_item"
        /\ task[t].stage = "get"
        /\ task[t].pc = "done"
        /\ task[t].result = "error"
        /\ task[t].s1 = 401
        /\ task[t].s2 = 401
        /\ received = Null
        /\ remote \in FetchItems

----------------------------------------------------------------------------
(* Properties of the list operations and create_location, checked under
   SpecOperations *)

\* C16: get_items returns a sequence for every successful response: the
\* list under the items key of an envelope, and never something that is not
\* a sequence (an envelope without items, an items key holding null).
C16_GetItemsReturnsSequence ==
    \A t \in Tasks :
        (/\ task[t].op = "get_items"
         /\ task[t].pc = "done"
         /\ task[t].result = "ok")
        => task[t].value.t = "list"

\* C17: a list operation answered by a healthy service returns one element
\* per record the service reports, in the service's order (the record
\* itself from the client, its summary from a tool), and the empty sequence
\* when the service reports no record.
ListOps == {"request", "get_items", "get_labels"} \cup ToolOps

AnsweredOk(t) ==
    /\ task[t].pc = "done"
    /\ task[t].s1 = 200 \/ task[t].s2 = 200

C17_ListsKeepOrder ==
    \A t \in Tasks :
        (task[t].op \in ListOps /\ faithful /\ AnsweredOk(t))
        => /\ task[t].result = "ok"
           /\ task[t].value.t = "list"
           /\ Len(task[t].value.v) = Len(remote.v)
           /\ \A i \in 1..Len(remote.v) :
                /\ task[t].value.v[i].v["id"] = remote.v[i].v["id"]
                /\ task[t].value.v[i] =
                        IF task[t].op \in ToolOps
                        THEN Summary(task[t].op, remote.v[i].v)
                        ELSE remote.v[i]

C17_Witness ==
    \E t \in Tasks :
        /\ task[t].op = "homebox_list_items"
        /\ faithful
        /\ AnsweredOk(t)
        /\ Len(remote.v) = 2
        /\ remote.v[1].v["id"] = Str("i2")
        /\ task[t].value.v[1].v["id"] = Str("i2")
        /\ task[t].value.v[2].v["id"] = Str("i1")

\* C19: the body create_location posts has the name, a description and a
\* parentId only when the caller gave a non-empty one, and no null: with
\* description and parent_id left at None it is exactly {name}.
C19_CreateLocationBody ==
    \A t \in Tasks : task[t].op = "create_location" =>
        /\ task[t].pc = "request" =>
                task[t].out.method = "POST" /\ task[t].out.endpoint = "/locations"
        /\ \A m \in wire \ {Plain(LoginMsg)} :
            LET d == m.json.v IN
            /\ m.method = "POST" /\ m.endpoint = "/locations"
            /\ "name" \in DOMAIN d /\ d["name"] = task[t].args["name"]
            /\ DOMAIN d \subseteq {"name", "description", "parentId"}
            /\ \A k \in DOMAIN d : d[k] # Null
            /\ DOMAIN task[t].args = {"name"} => DOMAIN d = {"name"}

C19_Witness ==
    \E t \in Tasks :
        /\ task[t].op = "create_location"
        /\ task[t].pc = "done"
        /\ task[t].result = "ok"
        /\ DOMAIN task[t].args = {"name"}
        /\ [endpoint |-> "/locations", method |-> "POST",
            json |-> Obj([name |-> Str("Garage")]), params |-> NoParams] \in wire

----------------------------------------------------------------------------
(* Properties of the derived API base URL, checked under SpecUrl *)

\* C18: the derived API base URL is the configured URL without its trailing
\* slashes followed by /api/v1: it ends with /api/v1, what precedes is the
\* configured URL up to its trailing slashes and does not end with a slash
\* (no double slash before api), and the configured URL with one more or
\* one fewer trailing slash gives the same result.
C18_ApiBaseUrl ==
    base_url # <<>> =>
        LET u == config.homebox_url
            n == Len(base_url) - Len(ApiPath)
        IN  /\ n >= 0
            /\ SubSeq(base_url, n + 1, Len(base_url)) = ApiPath
            /\ n <= Len(u)
            /\ SubSeq(base_url, 1, n) = SubSeq(u, 1, n)
            /\ \A i \in (n + 1)..Len(u) : u[i] = "/"
            /\ n > 0 => base_url[n] # "/"
            /\ api_base_url(u \o <<"/">>) = base_url
            /\ (u # <<>> /\ u[Len(u)] = "/") =>
                    api_base_url(SubSeq(u, 1, Len(u) - 1)) = base_url

C18_Witness ==
    /\ config.homebox_url = <<"h", ":", "h", "/">>
    /\ base_url = <<"h", ":", "h", "/", "api", "/", "v1">>

----------------------------------------------------------------------------
(* Properties of failed calls, checked under Spec *)

\* task t's resource call is answered with a status that is not 2xx and is
\* not the 401 of a first call
FailureAnswered(t) ==
    /\ task[t].pc = "request"
    /\ \/ /\ task[t].nreq = 1 /\ task[t].s1 = 0
          /\ task'[t].s1 \notin {0, 401} /\ ~Is2xx(task'[t].s1)
       \/ /\ task[t].nreq = 2 /\ task[t].s2 = 0
          /\ task'[t].s2 # 0 /\ ~Is2xx(task'[t].s2)

\* C20: a response with a non-2xx status other than the 401 of a first call
\* ends the operation with an error at once: no further request and no
\* login is sent, the slot is left alone and the caller gets no result.
C20_FailureRaisesAtOnce ==
    [][\A t \in Tasks : FailureAnswered(t) =>
            /\ task'[t].pc = "done"
            /\ task'[t].result = "error"
            /\ task'[t].value = Str("HTTPStatusError")
            /\ task'[t].nreq = task[t].nreq
            /\ wire' = wire
            /\ _token' = _token]_vars

C20_Witness ==
    \E t \in Tasks :
        /\ task[t].pc = "done"
        /\ task[t].result = "error"
        /\ task[t].nreq = 1
        /\ task[t].s1 = 500
        /\ Held(_token)

----------------------------------------------------------------------------
(* Properties of the protection token, checked under SpecToken *)

\* protection is enabled and no token is configured: the token comes from
\* the file or from the random source
UsesTokenFile ==
    mcp_auth_enabled(environ) /\ _mcp_auth_token_configured(environ) = <<>>

\* C21: with endpoint protection enabled, no configured token and a token
\* file that every start so far could read and write, at most one token was
\* generated over all the starts: every start returned the token the first
\* start returned, the file holds that token, a generated token is written
\* to the file as it is, and no start after the first generated a token or
\* wrote the file.
C21_GeneratedOnce ==
    (UsesTokenFile /\ boot.clean /\ boot.starts >= 1) =>
        /\ boot.generated <= 1
        /\ boot.running
        /\ config._mcp_auth_token = boot.first
        /\ TOKEN_FILE.exists
        /\ strip(TOKEN_FILE.text) = boot.first
        /\ boot.generated = 1 =>
              /\ boot.first = token_urlsafe(1)
              /\ TOKEN_FILE.text = boot.first
        /\ boot.starts >= 2 => (boot.how = "file" /\ ~boot.write)

\* the third start of a machine whose first start generated the token
C21_Witness ==
    /\ UsesTokenFile
    /\ boot.clean
    /\ boot.starts = 3
    /\ boot.generated = 1
    /\ config._mcp_auth_token = token_urlsafe(1)

\* a step that starts the process
Started == boot'.starts = boot.starts + 1

\* C22: a start with protection enabled and no configured token, on a
\* machine whose file system refuses an operation on the token file, still
\* completes configuration loading; if the file could not be read or could
\* not be written the start returns a freshly generated, non-empty token;
\* and while the file cannot be written every start generates a new token.
C22_FileFailureNeverAborts ==
    [][(Started /\ UsesTokenFile /\ fs # FsOk) =>
          /\ boot'.running
          /\ (fs.stat # "ok" \/ fs.write # "ok"
                \/ (TOKEN_FILE.exists /\ fs.read # "ok")) =>
                /\ boot'.how = "generated"
                /\ config'._mcp_auth_token = token_urlsafe(boot'.generated)
                /\ config'._mcp_auth_token # <<>>
                /\ boot'.generated = boot.generated + 1]_vars

\* the start touched the token file: it tested, read or wrote it
Touched == boot'.stat \/ boot'.read \/ boot'.write

\* C23: at every start the token is chosen by strict priority.  A non-empty
\* configured token is returned as is, whatever the protection flag and the
\* file, and the file is neither read nor written; the file is consulted
\* only when no token is configured and protection is enabled; a token is
\* generated only when, in addition, the file is missing, unreadable or
\* blank once trimmed; with no configured token and protection disabled the
\* result is the empty token and the file is untouched.
C23_StrictPriority ==
    [][Started =>
          /\ _mcp_auth_token_configured(environ) # <<>> =>
                /\ boot'.running
                /\ config'._mcp_auth_token = _mcp_auth_token_configured(environ)
                /\ ~Touched
                /\ TOKEN_FILE' = TOKEN_FILE
          /\ Touched => UsesTokenFile
          /\ boot'.generated # boot.generated =>
                /\ UsesTokenFile
                /\ \/ ~TOKEN_FILE.exists
                   \/ fs.read # "ok"
                   \/ strip(TOKEN_FILE.text) = <<>>
          /\ (_mcp_auth_token_configured(environ) = <<>>
                /\ ~mcp_auth_enabled(environ)) =>
                /\ boot'.running
                /\ config'._mcp_auth_token = <<>>
                /\ ~Touched
                /\ TOKEN_FILE' = TOKEN_FILE]_vars

\* a start with protection enabled, a configured token and a file that
\* holds another token: the configured one was returned
C23_Witness ==
    /\ boot.how = "configured"
    /\ mcp_auth_enabled(environ)
    /\ fs = FsOk
    /\ TOKEN_FILE.exists
    /\ strip(TOKEN_FILE.text) = <<"a">>
    /\ config._mcp_auth_token = <<"c">>

----------------------------------------------------------------------------
(* Properties of the endpoint gate, checked under SpecGate *)

\* the gate was given a request to a path that is not exempt
Gated == request # NoRequest /\ request.path \notin ExemptPaths

\* the Authorization header of the request, empty when there is none
Authorization == EnvGet(request.headers, "Authorization", <<>>)

\* the request presents the protection token as the Bearer value
BearerValue ==
    Authorization = <<"Bearer ">> \o config._mcp_auth_token

\* the text after "Basic " in the request's header, decoded
BasicCredential ==
    IF startswith(Authorization, "Basic ")
    THEN b64decode(Tail(Authorization))
    ELSE [raised |-> TRUE, value |-> <<>>]

HasColon(str) == \E i \in 1..Len(str) : str[i] = ":"

\* the request presents the protection token as the part after the first
\* colon of a Basic credential
BasicAfterColon ==
    /\ ~BasicCredential.raised
    /\ HasColon(BasicCredential.value)
    /\ split(BasicCredential.value)[2] = config._mcp_auth_token

\* the request presents the protection token as a Basic credential that
\* has no colon
BasicWithoutColon ==
    /\ ~BasicCredential.raised
    /\ ~HasColon(BasicCredential.value)
    /\ BasicCredential.value = config._mcp_auth_token

\* the token the request presents, in any of the three forms
PresentedToken ==
    IF startswith(Authorization, "Bearer ") THEN Tail(Authorization)
    ELSE IF BasicCredential.raised THEN <<>>
    ELSE IF HasColon(BasicCredential.value) THEN split(BasicCredential.value)[2]
    ELSE BasicCredential.value

\* the request has no Authorization header or an empty one, a scheme other
\* than Bearer and Basic, a Basic text that cannot be decoded, an empty
\* token or a token other than the protection token
Unauthorized ==
    \/ Authorization = <<>>
    \/ ~startswith(Authorization, "Bearer ") /\ ~startswith(Authorization, "Basic ")
    \/ startswith(Authorization, "Basic ") /\ BasicCredential.raised
    \/ PresentedToken = <<>>
    \/ PresentedToken # config._mcp_auth_token

Rejected == answer.status_code = 401 /\ ~answer.call_next

\* C25 as stated: a request to a path other than / and /api/status reaches
\* the downstream handler only if protection is disabled or the request
\* presents the protection token as the Bearer value or as the part after
\* the first colon of a decoded Basic credential; with protection enabled a
\* missing header, an unrecognised or undecodable scheme, an empty token or
\* a different token is answered 401 without invoking the handler; requests
\* to / and /api/status always pass.
C25_PassOnlyBearerOrAfterColon ==
    /\ (Gated /\ answer.call_next) =>
          \/ ~config.mcp_auth_enabled
          \/ BearerValue
          \/ BasicAfterColon
    /\ (Gated /\ config.mcp_auth_enabled /\ Unauthorized) => Rejected
    /\ (request # NoRequest /\ request.path \in ExemptPaths) => answer.call_next

\* C25 (amended): a request to a path other than / and /api/status reaches
\* the downstream handler exactly if protection is disabled or the request
\* presents the protection token as the Bearer value, as the part after the
\* first colon of a decoded Basic credential, or as the whole of a decoded
\* Basic credential that has no colon; every other such request is
\* answered 401 without invoking the handler; requests to / and
\* /api/status always pass.
C25_GatePasses ==
    /\ Gated =>
          (answer.call_next <=>
              \/ ~config.mcp_auth_enabled
              \/ BearerValue
              \/ BasicAfterColon
              \/ BasicWithoutColon)
    /\ (Gated /\ ~answer.call_next) => Rejected
    /\ (Gated /\ config.mcp_auth_enabled /\ Unauthorized) => Rejected
    /\ (request # NoRequest /\ request.path \in ExemptPaths) => answer.call_next

\* a Basic credential without a colon that is the protection token passed
\* the gate of a protected server
C25_Witness ==
    /\ Gated
    /\ config.mcp_auth_enabled
    /\ BasicWithoutColon
    /\ answer.call_next

\* C26: whenever endpoint protection is enabled the settings object of the
\* running server holds a non-empty protection token, whatever the
\* configured token, the token file and the file operations that failed;
\* so a request that passed the gate of a protected server presented a
\* non-empty token, the protection token itself, also when no token was
\* configured.
C26_ProtectionTokenNonEmpty ==
    /\ (boot.running /\ config.mcp_auth_enabled) =>
          config._mcp_auth_token # <<>>
    /\ (Gated /\ config.mcp_auth_enabled /\ answer.call_next) =>
          /\ PresentedToken # <<>>
          /\ PresentedToken = config._mcp_auth_token
    /\ (Gated /\ config.mcp_auth_enabled /\ PresentedToken = <<>>) => Rejected

\* a protected server without a configured token, whose token file is
\* blank and cannot be written, rejected a request with an empty Bearer
\* value
C26_Witness ==
    /\ boot.running
    /\ UsesTokenFile
    /\ fs.write = "fail"
    /\ TOKEN_FILE.exists
    /\ strip(TOKEN_FILE.text) = <<>>
    /\ Gated
    /\ Authorization = <<"Bearer ">>
    /\ Rejected

----------------------------------------------------------------------------
(* Properties of the list tools' summaries, checked under SpecReshape *)

\* the record the service holds and the value the tool returned for it
Held1 == remote.v[1].v
Returned1(t) == task[t].value.v[1].v

\* the {id, name} pair of a nested record, of nulls if there is none
Pair(v) ==
    IF v.t = "obj"
    THEN Obj([id |-> Get(v.v, "id", Null), name |-> Get(v.v, "name", Null)])
    ELSE Obj([id |-> Null, name |-> Null])

\* C24: the list tools reshape every remote record, also one whose optional
\* fields are missing or null, without raising: homebox_list_locations
\* returns parent_id equal to the nested parent's id when a parent is
\* present and None when it is missing or null; homebox_list_items returns
\* quantity 1 when quantity is missing, insured and archived false when
\* missing, the labels flattened to {id, name} pairs and a location
\* {id, name} pair, also for an item whose location is missing or null.
C24_ReshapesEveryRecord ==
    \A t \in Tasks :
        (task[t].op \in ToolOps /\ faithful /\ AnsweredOk(t)) =>
            /\ task[t].result = "ok"
            /\ task[t].value.t = "list"
            /\ Len(task[t].value.v) = 1
            /\ task[t].op = "homebox_list_locations" =>
                  Returned1(t)["parent_id"] =
                      IF Get(Held1, "parent", Null) = Null THEN Null
                      ELSE Held1["parent"].v["id"]
            /\ task[t].op = "homebox_list_items" =>
                  /\ Returned1(t)["quantity"] = Get(Held1, "quantity", Num(1))
                  /\ Returned1(t)["insured"] = Get(Held1, "insured", Bool(FALSE))
                  /\ Returned1(t)["archived"] = Get(Held1, "archived", Bool(FALSE))
                  /\ Returned1(t)["location"] = Pair(Get(Held1, "location", Null))
                  /\ Get(Held1, "labels", Null) # Null =>
                        /\ Returned1(t)["labels"].t = "list"
                        /\ Len(Returned1(t)["labels"].v) = Len(Held1["labels"].v)
                        /\ \A i \in 1..Len(Held1["labels"].v) :
                              Returned1(t)["labels"].v[i] = Pair(Held1["labels"].v[i])

----------------------------------------------------------------------------
(* Properties of the two authentication modes, checked under Spec *)

\* the settings object designates static-token authentication
StaticTokenMode == config.has_auth_settings /\ config.use_token_auth

\* in static-token mode no login call was sent and none is in flight, the
\* slot holds the configured token once an operation has started, and a
\* retry carries the credential of the first attempt
C27_NoLoginSameToken ==
    StaticTokenMode =>
        /\ Plain(LoginMsg) \notin wire
        /\ left < MaxOps => _token = config.homebox_token
        /\ \A t \in Tasks :
            /\ task[t].pc # "login"
            /\ task[t].nlogin = 0
            /\ task[t].pc = "request" =>
                  task[t].out.auth = _get_headers(config.homebox_token)
            /\ (task[t].pc = "request" /\ task[t].nreq = 2) =>
                  task[t].a2 = task[t].a1

\* C27: in static-token mode the client never calls the login endpoint,
\* whatever the operations and their interleaving: the step that follows a
\* 401 re-adopts the configured token and sends the retry at once, with
\* exactly the credential that was just rejected, and the slot holds the
\* configured token again after the operation.
C27_StaticTokenNeverLogsIn ==
    /\ []C27_NoLoginSameToken
    /\ [][\A t \in Tasks :
            /\ (StaticTokenMode /\ FirstAnswered(t) /\ task'[t].s1 = 401) =>
                  /\ task'[t].pc = "request"
                  /\ task'[t].nreq = 2
                  /\ task'[t].out.auth = task[t].out.auth
                  /\ task'[t].out.endpoint = task[t].out.endpoint
                  /\ _token' = config.homebox_token
            /\ (StaticTokenMode /\ task[t].pc # "done" /\ task'[t].pc = "done") =>
                  _token' = config.homebox_token
         ]_vars

\* a retry in flight with the configured token, which the service rejected
\* a moment ago
C27_Witness ==
    \E t \in Tasks :
        /\ StaticTokenMode
        /\ task[t].pc = "request"
        /\ task[t].nreq = 2
        /\ task[t].s1 = 401
        /\ task[t].out.auth = Bearer(CfgTok)
        /\ task[t].a1 = Bearer(CfgTok)
        /\ _token = CfgTok

\* the login call of task t is answered and the operation ends there
LoginFailed(t) == LoginAnswered(t) /\ task'[t].pc = "done"

\* what a failed login does apart from the slot: the operation goes on
\* after a login answer only if the login succeeded, and otherwise ends
\* with the error of the login call without sending anything
FailedLoginRaises(t) ==
    /\ LoginAnswered(t) => task'[t].lr # LoginFail
    /\ LoginFailed(t) =>
          /\ task'[t].result = "error"
          /\ task'[t].value = Str("HTTPStatusError")
          /\ task'[t].nreq = task[t].nreq
          /\ task'[t].nreq <= 1
          /\ wire' = wire

\* an operation that starts with the slot empty begins with a login call
EmptySlotLogsIn(t) ==
    (StartsOperation(t) /\ _token = None) =>
        /\ task'[t].pc = "login"
        /\ task'[t].out = LoginMsg

\* C28 as stated: with credentials, a login call that fails, on first use
\* or in the re-authentication after a 401, raises its error to the caller,
\* the original call is not sent or not retried, and the slot is left
\* empty, so the next operation starts with a login call.
C28_FailedLoginLeavesSlotEmpty ==
    [][config = CredentialsConfig =>
          \A t \in Tasks :
              /\ FailedLoginRaises(t)
              /\ LoginFailed(t) => _token' = None
              /\ EmptySlotLogsIn(t)]_vars

\* C28 (amended): with credentials, a login call that fails, on first use
\* or in the re-authentication after a 401, raises its error to the caller,
\* the original call is not sent or not retried, and the slot is left as it
\* is: empty, unless the login of a concurrent invocation stored a token
\* while this login call was in flight.  An operation that starts with
\* the slot empty starts with a login call.
C28_FailedLoginLeavesSlotAlone ==
    [][config = CredentialsConfig =>
          \A t \in Tasks :
              /\ FailedLoginRaises(t)
              /\ LoginFailed(t) =>
                    /\ _token' = _token
                    /\ _token' \in {None} \cup LoginTokens
                    /\ (\A u \in Tasks \ {t} : task[u].pc = "idle") =>
                          _token' = None
              /\ EmptySlotLogsIn(t)]_vars

\* the login of a re-authentication failed: the operation ended with the
\* error after one call and the slot is empty
C28_Witness ==
    \E t \in Tasks :
        /\ config = CredentialsConfig
        /\ task[t].pc = "done"
        /\ task[t].result = "error"
        /\ task[t].nreq = 1
        /\ task[t].s1 = 401
        /\ task[t].s2 = 0
        /\ _token = None

\* C29: with the settings object Config.from_environment builds, every
\* setting the authentication step reads is defined, so the first operation
\* of a task, started with the slot empty, goes on to adopt the configured
\* token and send its request or to send a login call, and does not end on
\* a missing setting.
C29_SettingsDefined ==
    [][\A t \in Tasks :
        (config \in EnvironmentConfigs /\ StartsOperation(t) /\ _token = None) =>
            /\ task'[t].pc \in {"login", "request"}
            /\ task'[t].result # "error"
            /\ task'[t].pc = "request" => _token' = config.homebox_token
            /\ task'[t].pc = "login" => task'[t].out = LoginMsg
      ]_vars

====
